---- MODULE Spec2Model ----
(***************************************************************************)
(* Model of the tile pyramid and dataset lifecycle core of xcube-server:   *)
(*   - xcube_server/im/tilegrid.py : pow2_1d_subdivisions,                 *)
(*     pow2_2d_subdivision, TileGrid                                       *)
(*   - xcube_server/context.py     : ServiceContext (dataset_cache,        *)
(*     config setter, _get_dataset_entry, _create_dataset_entry)           *)
(***************************************************************************)
EXTENDS Integers, Sequences, FiniteSets, TLC

(***************************************************************************)
(* Bounds of the model                                                     *)
(***************************************************************************)
\* largest image extent w, h enumerated for the subdivision
MaxSize == 8
\* largest preferred tile size tw_opt, th_opt enumerated
MaxTsOpt == 3
\* number of request threads
NumThreads == 2
\* number of get calls that are started in one run
MaxCalls == 3
\* number of configuration assignments in one run
MaxAssign == 2
\* depth of nested get_dataset calls at which Python raises RecursionError
RecursionLimit == 3
\* level indices that directory entries and get_dataset calls range over
MaxLevels == 2
\* calls of get_dataset, base_dataset and datasets
MaxReads == 3

(***************************************************************************)
(* Python values                                                           *)
(***************************************************************************)
\* Optional[int]: None is the empty tuple, a value v is <<v>>
None == << >>

Some(v) == <<v>>

\* Python truthiness of an Optional[int]: None and 0 are falsy
Truthy(x) == x # None /\ x[1] # 0

\* Python "x or d" for an Optional[int] x and an int d
OrElse(x, d) == IF Truthy(x) THEN x[1] ELSE d

Min(a, b) == IF a < b THEN a ELSE b

Abs(a) == IF a < 0 THEN -a ELSE a

\* the list [f(1), ..., f(n)] as a tuple
List(f, n) == SubSeq(f, 1, n)

\* list.sort(key=...): stable, ascending. key[i] is the key of element i of
\* the list, pos[i] the index that element i has after the sort
SortBy(seq, key) ==
    LET n == Len(seq)
        Before(i, j) == key[i] < key[j] \/ (key[i] = key[j] /\ i < j)
        pos == List([i \in 1..n |->
                       1 + Cardinality({j \in 1..n : Before(j, i)})], n)
    IN  List([p \in 1..n |-> seq[CHOOSE i \in 1..n : pos[i] = p]], n)

\* list.sort(key=..., reverse=True): stable, descending (elements with equal
\* keys keep their original order)
SortByReverse(seq, key) ==
    LET n == Len(seq)
        Before(i, j) == key[i] > key[j] \/ (key[i] = key[j] /\ i < j)
        pos == List([i \in 1..n |->
                       1 + Cardinality({j \in 1..n : Before(j, i)})], n)
    IN  List([p \in 1..n |-> seq[CHOOSE i \in 1..n : pos[i] = p]], n)

(***************************************************************************)
(* tilegrid.py: the subdivision algorithm                                  *)
(***************************************************************************)
MODE_LE == -1
MODE_EQ == 0
MODE_GE == 1

Modes == {MODE_LE, MODE_EQ, MODE_GE}

\* default lower tile size when ts_opt is not given
DefaultTsMin == 200
\* default upper tile size when ts_opt is not given
DefaultTsMax == 1200
\* default nt0_max
DefaultNt0Max == 8
\* default nl_max
DefaultNlMax == 16

\* a subdivision record (s_max, ts, nt0, nl)
Rec(s_max, ts, nt0, nl) == <<s_max, ts, nt0, nl>>

\* variant: the fallback pyramid has a tile of one pixel
TrivialUnitTile(s) == Rec(s, 1, 1, 1)

\* the trivial single-tile, single-level pyramid (s, s, 1, 1)
Trivial(s) == Rec(s, s, 1, 1)

\* "for nl in range(2, nl_max)" from nl on, for one (ts, nt0)
RECURSIVE NlLoop(_, _, _, _, _, _, _, _)
NlLoop(s, s_mode, ts, nt0, s_max_min, s_max_max, nl, nl_max) ==
    IF nl >= nl_max
    THEN << >>
    ELSE
      LET nt == (2 ^ (nl - 1)) * nt0
          s_max == nt * ts
          rest == NlLoop(s, s_mode, ts, nt0, s_max_min, s_max_max,
                         nl + 1, nl_max)
      IN  IF s_mode = MODE_GE
          THEN IF s_max >= s
               THEN IF s_max > s_max_max
                    THEN << >>                                   \* break
                    ELSE <<Rec(s_max, ts, nt0, nl)>> \o rest
               ELSE rest
          ELSE IF s_mode = MODE_LE
          THEN IF s >= s_max /\ s_max >= s_max_min
               THEN <<Rec(s_max, ts, nt0, nl)>> \o rest
               ELSE rest
          ELSE IF s_max = s
               THEN <<Rec(s_max, ts, nt0, nl)>> \o rest
               ELSE IF s_max > s
                    THEN << >>                                   \* break
                    ELSE rest

\* "for nt0 in range(1, nt0_max)" from nt0 on, for one ts
RECURSIVE Nt0Loop(_, _, _, _, _, _, _, _)
Nt0Loop(s, s_mode, ts, s_max_min, s_max_max, nt0, nt0_max, nl_max) ==
    IF nt0 >= nt0_max
    THEN << >>
    ELSE IF nt0 * ts > s_max_max
         THEN << >>                                              \* break
         ELSE NlLoop(s, s_mode, ts, nt0, s_max_min, s_max_max, 2, nl_max)
              \o Nt0Loop(s, s_mode, ts, s_max_min, s_max_max,
                         nt0 + 1, nt0_max, nl_max)

\* the body of "for ts in range(ts_min, ts_max + 1)" for one ts
TsBody(s, s_mode, ts, nt0_max, nl_max) ==
    LET s_max_min == IF s_mode = MODE_EQ \/ s_mode = MODE_GE
                     THEN s ELSE s - (ts - 1)
        s_max_max == IF s_mode = MODE_EQ \/ s_mode = MODE_LE
                     THEN s ELSE s + (ts - 1)
    IN  Nt0Loop(s, s_mode, ts, s_max_min, s_max_max, 1, nt0_max, nl_max)

\* "for ts in range(ts_min, ts_max + 1)": the loop has no break, so the
\* records of ts_lo..ts_hi are those of the lower half followed by those of
\* the upper half
RECURSIVE TsLoop(_, _, _, _, _, _)
TsLoop(s, s_mode, ts_lo, ts_hi, nt0_max, nl_max) ==
    IF ts_lo > ts_hi
    THEN << >>
    ELSE IF ts_lo = ts_hi
    THEN TsBody(s, s_mode, ts_lo, nt0_max, nl_max)
    ELSE LET mid == (ts_lo + ts_hi) \div 2
         IN  TsLoop(s, s_mode, ts_lo, mid, nt0_max, nl_max)
             \o TsLoop(s, s_mode, mid + 1, ts_hi, nt0_max, nl_max)

\* variant: the sort by closeness to the preferred tile size is left out
SortSubdivisionsNoTs(subdivisions, s, ts_opt) ==
    LET Keys(l, Key(_)) == List([i \in 1..Len(l) |-> Key(l[i])], Len(l))
        by_nl  == SortByReverse(subdivisions,
                                Keys(subdivisions, LAMBDA r : r[4]))
        by_nt0 == SortBy(by_nl, Keys(by_nl, LAMBDA r : r[3]))
    IN  SortBy(by_nt0, Keys(by_nt0, LAMBDA r : r[1] - s))

\* the four successive stable sorts of the accepted candidates
SortSubdivisions(subdivisions, s, ts_opt) ==
    LET Keys(l, Key(_)) == List([i \in 1..Len(l) |-> Key(l[i])], Len(l))
        by_nl  == SortByReverse(subdivisions,
                                Keys(subdivisions, LAMBDA r : r[4]))
        by_ts  == IF Truthy(ts_opt)
                  THEN SortBy(by_nl,
                              Keys(by_nl, LAMBDA r : Abs(r[2] - ts_opt[1])))
                  ELSE by_nl
        by_nt0 == SortBy(by_ts, Keys(by_ts, LAMBDA r : r[3]))
    IN  SortBy(by_nt0, Keys(by_nt0, LAMBDA r : r[1] - s))

\* the tile sizes of "for ts in range(ts_min, ts_max + 1)" after the
\* defaults of ts_min and ts_max have been filled in
ts_values(s, ts_opt, ts_min, ts_max) ==
    OrElse(ts_min, Min(s, IF Truthy(ts_opt) THEN ts_opt[1] \div 2
                          ELSE DefaultTsMin))
    .. OrElse(ts_max, Min(s, IF Truthy(ts_opt) THEN ts_opt[1] * 2
                             ELSE DefaultTsMax))

\* pow2_1d_subdivisions: [error |-> "" or the ValueError, subdivisions |-> list]
pow2_1d_subdivisions(s, s_mode, ts_opt, ts_min, ts_max, nt0_max, nl_max) ==
    IF s < 1
    THEN [error |-> "invalid s", subdivisions |-> << >>]
    ELSE IF ts_opt # None /\ s = ts_opt[1]
    THEN [error |-> "", subdivisions |-> <<Trivial(s)>>]
    ELSE
      LET ts_min_ == OrElse(ts_min,
                       Min(s, IF Truthy(ts_opt) THEN ts_opt[1] \div 2
                              ELSE DefaultTsMin))
          ts_max_ == OrElse(ts_max,
                       Min(s, IF Truthy(ts_opt) THEN ts_opt[1] * 2
                              ELSE DefaultTsMax))
          nt0_max_ == OrElse(nt0_max, DefaultNt0Max)
          nl_max_ == OrElse(nl_max, DefaultNlMax)
      IN  IF ts_min_ < 1
          THEN [error |-> "invalid ts_min", subdivisions |-> << >>]
          ELSE IF ts_max_ < 1
          THEN [error |-> "invalid ts_max", subdivisions |-> << >>]
          ELSE IF ts_opt # None /\ ts_opt[1] < 1
          THEN [error |-> "invalid ts_opt", subdivisions |-> << >>]
          ELSE IF nt0_max_ < 1
          THEN [error |-> "invalid nt0_max", subdivisions |-> << >>]
          ELSE IF nl_max_ < 1
          THEN [error |-> "invalid nl_max", subdivisions |-> << >>]
          ELSE
            LET subdivisions == TsLoop(s, s_mode, ts_min_, ts_max_,
                                       nt0_max_, nl_max_)
            IN  IF subdivisions = << >>
                THEN [error |-> "", subdivisions |-> <<Trivial(s)>>]
                ELSE [error |-> "",
                      subdivisions |-> SortSubdivisions(subdivisions, s, ts_opt)]

\* pow2_1d_subdivision: the first element of pow2_1d_subdivisions
pow2_1d_subdivision(s_act, s_mode, ts_opt, ts_min, ts_max, nt0_max, nl_max) ==
    LET r == pow2_1d_subdivisions(s_act, s_mode, ts_opt, ts_min, ts_max,
                                  nt0_max, nl_max)
    IN  IF r.error # ""
        THEN [error |-> r.error, rec |-> << >>]
        ELSE [error |-> "", rec |-> r.subdivisions[1]]

\* ceil(a / b) as computed by (a + b - 1) // b
CeilDiv(a, b) == (a + b - 1) \div b

\* the result of a call that raised
Raised(e) ==
    [error |-> e, w_act |-> 0, h_act |-> 0, tw |-> 0, th |-> 0,
     nt0_x |-> 0, nt0_y |-> 0, nl |-> 0]

\* variant: the smaller level count is taken, the level-zero tile counts
\* are not recomputed
reconcileKeepTiles(x, y) ==
    IF x.error # "" THEN Raised(x.error)
    ELSE IF y.error # "" THEN Raised(y.error)
    ELSE [error |-> "", w_act |-> x.rec[1], h_act |-> y.rec[1],
          tw |-> x.rec[2], th |-> y.rec[2],
          nt0_x |-> x.rec[3], nt0_y |-> y.rec[3],
          nl |-> IF x.rec[4] < y.rec[4] THEN x.rec[4] ELSE y.rec[4]]

\* variant: the level-zero tile count is recomputed for one level more than
\* the reduced level count
reconcileOneLevelMore(x, y) ==
    IF x.error # "" THEN Raised(x.error)
    ELSE IF y.error # "" THEN Raised(y.error)
    ELSE
      LET nl == IF x.rec[4] < y.rec[4] THEN x.rec[4] ELSE y.rec[4]
          f  == 2 ^ nl
      IN  [error |-> "", w_act |-> x.rec[1], h_act |-> y.rec[1],
           tw |-> x.rec[2], th |-> y.rec[2],
           nt0_x |-> IF x.rec[4] > y.rec[4]
                     THEN CeilDiv(CeilDiv(x.rec[1], f), x.rec[2])
                     ELSE x.rec[3],
           nt0_y |-> IF x.rec[4] < y.rec[4]
                     THEN CeilDiv(CeilDiv(y.rec[1], f), y.rec[2])
                     ELSE y.rec[3],
           nl |-> nl]

\* pow2_2d_subdivision after its two calls of pow2_1d_subdivision returned
\* x and y: the level counts of the two axes are reconciled
reconcile(x, y) ==
    IF x.error # "" THEN Raised(x.error)
    ELSE IF y.error # "" THEN Raised(y.error)
    ELSE
      LET w_act == x.rec[1]
          tw    == x.rec[2]
          nl_x  == x.rec[4]
          h_act == y.rec[1]
          th    == y.rec[2]
          nl_y  == y.rec[4]
          nl    == IF nl_x < nl_y THEN nl_x ELSE nl_y
          f     == 2 ^ (nl - 1)
          nt0_x == IF nl_x > nl_y
                   THEN CeilDiv(CeilDiv(w_act, f), tw) ELSE x.rec[3]
          nt0_y == IF nl_x < nl_y
                   THEN CeilDiv(CeilDiv(h_act, f), th) ELSE y.rec[3]
      IN  [error |-> "", w_act |-> w_act, h_act |-> h_act,
           tw |-> tw, th |-> th,
           nt0_x |-> nt0_x, nt0_y |-> nt0_y, nl |-> nl]

\* pow2_2d_subdivision: ((w_act, h_act), (tw, th), (nt0_x, nt0_y), nl)
pow2_2d_subdivision(w, h, w_mode, h_mode, tw_opt, th_opt, tw_min, th_min, tw_max, th_max, nt0_max, nl_max) ==
    reconcile(pow2_1d_subdivision(w, w_mode, tw_opt, tw_min, tw_max,
                                  nt0_max, nl_max),
              pow2_1d_subdivision(h, h_mode, th_opt, th_min, th_max,
                                  nt0_max, nl_max))

(***************************************************************************)
(* tilegrid.py: TileGrid                                                   *)
(***************************************************************************)
\* default preferred tile size of TileGrid.create ("tile_width or 256")
DefaultTileSize == 256

\* TileGrid.__init__
TileGrid(num_levels, num_level_zero_tiles_x, num_level_zero_tiles_y, tile_width, tile_height, geo_extent) ==
    [num_levels |-> num_levels,
     num_level_zero_tiles_x |-> num_level_zero_tiles_x,
     num_level_zero_tiles_y |-> num_level_zero_tiles_y,
     tile_width |-> tile_width,
     tile_height |-> tile_height,
     geo_extent |-> geo_extent]

\* the attributes that TileGrid.__eq__ reads, in the order it reads them
EqAttributes ==
    <<"num_levels", "tile_width", "tile_height", "num_level_zero_tiles_x",
      "num_level_zero_tiles_y", "geo_extent">>

\* TileGrid.__eq__ without the comparison of geo_extent
tile_grid_eq_five(self, o) ==
    \A k \in 1..5 :
        EqAttributes[k] \in DOMAIN o /\ self[EqAttributes[k]] = o[EqAttributes[k]]

\* TileGrid.__eq__(self, o): the chain of "and" ends with False at the first
\* attribute that differs, and reading an attribute that o does not have
\* raises the AttributeError that is caught and answered with False
tile_grid_eq(self, o) ==
    \A k \in 1..Len(EqAttributes) :
        EqAttributes[k] \in DOMAIN o /\ self[EqAttributes[k]] = o[EqAttributes[k]]

num_tiles_x(tg, level) == tg.num_level_zero_tiles_x * (2 ^ level)

num_tiles_y(tg, level) == tg.num_level_zero_tiles_y * (2 ^ level)

width(tg, level) == num_tiles_x(tg, level) * tg.tile_width

height(tg, level) == num_tiles_y(tg, level) * tg.tile_height

max_width(tg) == width(tg, tg.num_levels - 1)

max_height(tg) == height(tg, tg.num_levels - 1)

\* Geographic coordinates are counted in tenths of a degree; a coordinate
\* computed by a division is the fraction <<numerator, denominator>>.
Deg180 == 1800
Deg360 == 3600
Deg90 == 900

\* GeoExtent(west, south, east, north, inv_y): the coordinates are fractions
GeoExtent(west, south, east, north, inv_y) ==
    [west |-> west, south |-> south, east |-> east, north |-> north,
     inv_y |-> inv_y]

\* GeoExtent.coords
coords(geo_extent) ==
    <<geo_extent.west, geo_extent.south, geo_extent.east, geo_extent.north>>

\* TileGrid.adjust_geo_extent, for an extent with whole coordinates
adjust_geo_extent(geo_extent, w_old, h_old, w_new, h_new) ==
    IF ~(w_new >= w_old) \/ ~(h_new >= h_old)
    THEN [error |-> "AssertionError"]
    ELSE
      LET gsb_x1 == geo_extent.west[1]
          gsb_y1 == geo_extent.south[1]
          gsb_x2 == geo_extent.east[1]
          gsb_y2 == geo_extent.north[1]
          gsb_w == IF gsb_x1 < gsb_x2
                   THEN gsb_x2 - gsb_x1
                   ELSE Deg360 + gsb_x2 - gsb_x1
          gsb_h == gsb_y2 - gsb_y1
          \* gsb_x1 + w_new * gsb_w / w_old
          x2_sum == gsb_x1 * w_old + w_new * gsb_w
          gsb_x2_new == IF w_new > w_old
                        THEN IF x2_sum > Deg180 * w_old
                             THEN <<x2_sum - Deg360 * w_old, w_old>>
                             ELSE <<x2_sum, w_old>>
                        ELSE <<gsb_x2, 1>>
          \* h_new * gsb_h / h_old
          gsb_h_new == h_new * gsb_h
          gsb_y1_new == IF h_new > h_old
                        THEN IF geo_extent.inv_y
                             THEN <<gsb_y2 * h_old - gsb_h_new, h_old>>
                             ELSE <<gsb_y1, 1>>
                        ELSE <<gsb_y1, 1>>
          gsb_y2_new == IF h_new > h_old
                        THEN IF geo_extent.inv_y
                             THEN <<gsb_y2, 1>>
                             ELSE <<gsb_y1 * h_old + gsb_h_new, h_old>>
                        ELSE <<gsb_y2, 1>>
      IN  [error |-> "",
           geo_extent |-> GeoExtent(<<gsb_x1, 1>>, gsb_y1_new, gsb_x2_new,
                                    gsb_y2_new, geo_extent.inv_y)]

\* the modes TileGrid.create selects from the coordinates of the extent
create_w_mode(geo_extent) ==
    LET gsb_x1 == geo_extent.west[1]
        gsb_x2 == geo_extent.east[1]
    IN  IF gsb_x1 = -Deg180 /\ gsb_x2 = Deg180 THEN MODE_EQ ELSE MODE_GE

create_h_mode(geo_extent) ==
    LET gsb_y1 == geo_extent.south[1]
        gsb_y2 == geo_extent.north[1]
    IN  IF \/ gsb_y1 = -Deg90 /\ gsb_y1 = Deg90
           \/ gsb_y1 = Deg90 /\ gsb_y2 = -Deg90
        THEN MODE_EQ ELSE MODE_GE

\* variant: the level-zero tile counts of the two axes are exchanged
create_grid_swapped(r, w, h, geo_extent) ==
    IF r.error # ""
    THEN [error |-> r.error]
    ELSE
      LET a == adjust_geo_extent(geo_extent, w, h, r.w_act, r.h_act)
      IN  IF a.error # ""
          THEN [error |-> a.error]
          ELSE [error |-> "",
                tile_grid |-> TileGrid(r.nl, r.nt0_y, r.nt0_x,
                                       r.tw, r.th, a.geo_extent)]

\* TileGrid.create after pow2_2d_subdivision returned r: the extent is
\* adjusted and the TileGrid constructed
create_grid(r, w, h, geo_extent) ==
    IF r.error # ""
    THEN [error |-> r.error]
    ELSE
      LET a == adjust_geo_extent(geo_extent, w, h, r.w_act, r.h_act)
      IN  IF a.error # ""
          THEN [error |-> a.error]
          ELSE [error |-> "",
                tile_grid |-> TileGrid(r.nl, r.nt0_x, r.nt0_y,
                                       r.tw, r.th, a.geo_extent)]

\* TileGrid.create: [error |-> "" or the exception, tile_grid |-> TileGrid]
create(w, h, tile_width, tile_height, geo_extent) ==
    create_grid(
        pow2_2d_subdivision(w, h,
            create_w_mode(geo_extent), create_h_mode(geo_extent),
            Some(Min(w, OrElse(tile_width, DefaultTileSize))),
            Some(Min(h, OrElse(tile_height, DefaultTileSize))),
            None, None, None, None, None, None),
        w, h, geo_extent)

(***************************************************************************)
(* context.py: the configuration and its dataset descriptors               *)
(***************************************************************************)
\* a dataset descriptor; "" stands for a key the descriptor does not have,
\* Refs are the '@name@' arguments (Args, then Kwargs) of a computed dataset
Descriptor(id, path, fs, format, refs) ==
    [Identifier |-> id, Path |-> path, FileSystem |-> fs, Format |-> format,
     Refs |-> refs]

\* dict.get(key, default) for a string-valued key
DictGet(value, default) == IF value = "" THEN default ELSE value

\* a configuration: the keys of the dict and the value of 'Datasets'
\* (None and the empty list are both the falsy << >>)
Config(keys, datasets) == [keys |-> keys, Datasets |-> datasets]

\* bool(config) of a dict
ConfigTruthy(c) == c.keys # {}

Ids == {"A", "B", "C"}

\* Identifier and Path only, as in the test configuration: local NetCDF
DescA == Descriptor("A", "a.nc", "", "", << >>)
\* an object store without Format: Zarr
DescAObs == Descriptor("A", "bucket/a.zarr", "obs", "", << >>)
\* an object store with a Format other than zarr
DescAObsNc == Descriptor("A", "bucket/a.nc", "obs", "nc", << >>)
DescB == Descriptor("B", "b.levels", "local", "levels", << >>)
\* no Path
DescBNoPath == Descriptor("B", "", "local", "nc", << >>)
\* a Format that is none of nc, zarr, levels
DescBBadFormat == Descriptor("B", "b.tif", "local", "tif", << >>)
\* a computed dataset with the argument '@A@'
DescC == Descriptor("C", "c.py", "computed", "", <<"A">>)
\* a FileSystem that is none of local, obs, computed
DescCBadFs == Descriptor("C", "c.nc", "ftp", "nc", << >>)

\* a computed dataset whose argument '@C@' references the dataset itself
DescCSelf == Descriptor("C", "c.py", "computed", "", <<"C">>)
\* two computed datasets that reference each other
DescBRefC == Descriptor("B", "b.py", "computed", "", <<"C">>)
DescCRefB == Descriptor("C", "c.py", "computed", "", <<"B">>)

\* configurations with references among computed datasets: to the dataset
\* itself, in a cycle of two, and to a stored dataset
RefConfigs ==
    { Config({"Datasets"}, <<DescA, DescCSelf>>),
      Config({"Datasets"}, <<DescBRefC, DescCRefB>>),
      Config({"Datasets"}, <<DescA, DescB, DescC>>) }

\* the configurations that are assigned in the model
Configs ==
    { Config({}, << >>),
      Config({"Styles"}, << >>),
      Config({"Datasets"}, <<DescA, DescB>>),
      Config({"Datasets", "Styles"}, <<DescB, DescC>>),
      Config({"Datasets"}, <<DescA, DescC>>),
      Config({"Datasets"}, <<DescAObs, DescBNoPath, DescCBadFs>>),
      Config({"Datasets"}, <<DescAObsNc, DescBBadFormat, DescC>>) }

\* ServiceContext.find_dataset_descriptor: the first descriptor with the
\* identifier, or None
find_dataset_descriptor(dataset_descriptors, ds_name) ==
    LET found == {i \in 1..Len(dataset_descriptors) :
                    dataset_descriptors[i].Identifier = ds_name}
    IN  IF found = {}
        THEN None
        ELSE <<dataset_descriptors[CHOOSE i \in found :
                                     \A j \in found : i <= j]>>

\* ServiceContext.get_dataset_descriptor:
\* [error |-> "" or the exception, descriptor |-> the descriptor]
get_dataset_descriptor(cfg, ds_id) ==
    IF cfg.Datasets = << >>
    THEN [error |-> "ServiceConfigError", descriptor |-> None]
    ELSE LET d == find_dataset_descriptor(cfg.Datasets, ds_id)
         IN  IF d = None
             THEN [error |-> "ServiceResourceNotFoundError", descriptor |-> None]
             ELSE [error |-> "", descriptor |-> d]

\* variant: 'FileSystem' and 'Format' are required, nothing is defaulted
check_descriptor_required(d) ==
    IF d.Path = "" \/ d.FileSystem = "" \/ d.Format = ""
    THEN [error |-> "ServiceConfigError", kind |-> ""]
    ELSE IF d.FileSystem = "obs"
    THEN IF d.Format # "zarr"
         THEN [error |-> "ServiceConfigError", kind |-> ""]
         ELSE [error |-> "", kind |-> "obs-zarr"]
    ELSE IF d.FileSystem = "local"
    THEN IF d.Format \in {"nc", "zarr", "levels"}
         THEN [error |-> "", kind |-> "local-" \o d.Format]
         ELSE [error |-> "ServiceConfigError", kind |-> ""]
    ELSE IF d.FileSystem = "computed"
    THEN [error |-> "", kind |-> "computed"]
    ELSE [error |-> "ServiceConfigError", kind |-> ""]

\* the checks of _create_dataset_entry on the descriptor before anything is
\* opened: [error, kind of opening]
check_descriptor(d) ==
    IF d.Path = ""
    THEN [error |-> "ServiceConfigError", kind |-> ""]
    ELSE
      LET fs_type == DictGet(d.FileSystem, "local")
      IN  IF fs_type = "obs"
          THEN IF DictGet(d.Format, "zarr") # "zarr"
               THEN [error |-> "ServiceConfigError", kind |-> ""]
               ELSE [error |-> "", kind |-> "obs-zarr"]
          ELSE IF fs_type = "local"
          THEN LET data_format == DictGet(d.Format, "nc")
               IN  IF data_format \in {"nc", "zarr", "levels"}
                   THEN [error |-> "", kind |-> "local-" \o data_format]
                   ELSE [error |-> "ServiceConfigError", kind |-> ""]
          ELSE IF fs_type = "computed"
          THEN [error |-> "", kind |-> "computed"]
          ELSE [error |-> "ServiceConfigError", kind |-> ""]

(***************************************************************************)
(* context.py: ServiceContext                                              *)
(***************************************************************************)
VARIABLES
    config,         \* ServiceContext._config
    dataset_cache,  \* ServiceContext.dataset_cache: ds_id -> (ml_dataset, descriptor)
    lock,           \* ServiceContext._lock, a threading.RLock: owner and count
    stack,          \* per thread: the frames of its nested _get_dataset_entry calls
    call,           \* per thread: the public method it called last, and the
                    \* number of assignments before the call
    result,         \* per thread: what that call returned or raised
    handles,        \* the MultiLevelDatasets opened so far: identifier, close()
                    \* calls, number of assignments before it was opened
    opener_calls,   \* per identifier: invocations of the external opener
    calls,          \* number of get calls started
    assigns,        \* number of configuration assignments
    tg_call,        \* the call made of the tile grid functions
    tg_result,      \* what that call returned or raised
    dir_listing,    \* the entries of the directory given to
                    \* StoredMultiLevelDataset
    mld,            \* the LazyMultiLevelDataset: outcome of its construction,
                    \* _num_levels, _level_paths, _level_datasets
    level_handles,  \* the level datasets get_dataset_lazily returned so far:
                    \* the index each was retrieved for
    lazily_calls,   \* per index: invocations of get_dataset_lazily
    rd,             \* per thread: its call of get_dataset, base_dataset or
                    \* datasets and what it returned so far
    reads           \* number of such calls started

vars == <<config, dataset_cache, lock, stack, call, result, handles,
          opener_calls, calls, assigns, tg_call, tg_result,
          dir_listing, mld, level_handles, lazily_calls, rd, reads>>

ctx_vars == <<config, dataset_cache, lock, stack, call, result, handles,
              opener_calls, calls, assigns>>

tg_vars == <<tg_call, tg_result>>

ml_vars == <<dir_listing, mld, level_handles, lazily_calls, rd, reads>>

Threads == 1..NumThreads

NoThread == 0

\* the public methods that go through _get_dataset_entry
GetOps == {"get_ml_dataset", "get_dataset", "get_tile_grid"}

EmptyCache == [id \in {} |-> << >>]

CachePut(cache, ds_id, entry) ==
    [id \in DOMAIN cache \cup {ds_id} |->
        IF id = ds_id THEN entry ELSE cache[id]]

CacheDel(cache, ds_ids) == [id \in DOMAIN cache \ ds_ids |-> cache[id]]

\* a frame of _get_dataset_entry(ds_id) at its first statement
Frame(ds_id) ==
    [ds_id |-> ds_id, pc |-> "check", ml_dataset |-> 0,
     descriptor |-> None, arg |-> 0]

Top(t) == stack[t][Len(stack[t])]

SetTop(t, f) ==
    [stack EXCEPT ![t] = SubSeq(@, 1, Len(@) - 1) \o <<f>>]

\* the frames that are inside "with self._lock"
InLock == {"create", "args", "call", "store"}

\* what a call returned: kind is "none" while it runs, "ok" with the returned
\* handle (and whether this call created the entry), or "error" with the
\* exception
NoResult == [kind |-> "none", value |-> 0, error |-> "", opened |-> FALSE]

\* ml_dataset.close(): one more close() call on each of the handles hs
Close(hdls, hs) ==
    [h \in DOMAIN hdls |->
        IF h \in hs
        THEN [hdls[h] EXCEPT !.closes = @ + 1]
        ELSE hdls[h]]

\* RLock.release()
Release(l, n) ==
    IF l.count - n = 0
    THEN [owner |-> NoThread, count |-> 0]
    ELSE [owner |-> l.owner, count |-> l.count - n]

\* variant: the failure is remembered as the entry of the identifier
RaiseCachesFailure(t, e) ==
    LET held == Cardinality({i \in 1..Len(stack[t]) : stack[t][i].pc \in InLock})
    IN  /\ stack' = [stack EXCEPT ![t] = << >>]
        /\ lock' = Release(lock, held)
        /\ result' = [result EXCEPT ![t] =
               [kind |-> "error", value |-> 0, error |-> e, opened |-> FALSE]]
        /\ dataset_cache' = CachePut(dataset_cache, Top(t).ds_id,
                                [ml_dataset |-> 0, descriptor |-> None])

\* an exception leaves all frames of thread t; each "with self._lock" it
\* passes releases the lock once
Raise(t, e) ==
    LET held == Cardinality({i \in 1..Len(stack[t]) : stack[t][i].pc \in InLock})
    IN  /\ stack' = [stack EXCEPT ![t] = << >>]
        /\ lock' = Release(lock, held)
        /\ result' = [result EXCEPT ![t] =
               [kind |-> "error", value |-> 0, error |-> e, opened |-> FALSE]]
        /\ dataset_cache' = dataset_cache

CtxInit ==
    /\ config \in Configs
    /\ dataset_cache = EmptyCache
    /\ lock = [owner |-> NoThread, count |-> 0]
    /\ stack = [t \in Threads |-> << >>]
    /\ call = [t \in Threads |-> [op |-> "none", ds_id |-> "", epoch |-> 0]]
    /\ result = [t \in Threads |-> NoResult]
    /\ handles = << >>
    /\ opener_calls = [id \in Ids |-> 0]
    /\ calls = 0
    /\ assigns = 0

\* a thread calls get_ml_dataset, get_dataset or get_tile_grid
StartGet(t, op, ds_id) ==
    /\ stack[t] = << >>
    /\ calls < MaxCalls
    /\ stack' = [stack EXCEPT ![t] = <<Frame(ds_id)>>]
    /\ call' = [call EXCEPT ![t] =
           [op |-> op, ds_id |-> ds_id, epoch |-> assigns]]
    /\ result' = [result EXCEPT ![t] = NoResult]
    /\ calls' = calls + 1
    /\ UNCHANGED <<config, dataset_cache, lock, handles, opener_calls,
                   assigns, tg_vars, ml_vars>>

\* variant: the cache is not consulted, every get creates the entry
CheckCacheAlwaysMiss(t) ==
    /\ stack[t] # << >>
    /\ Top(t).pc = "check"
    /\ stack' = SetTop(t, [Top(t) EXCEPT !.pc = "lock"])
    /\ UNCHANGED <<config, dataset_cache, lock, call, result, handles,
                   opener_calls, calls, assigns, tg_vars, ml_vars>>

\* _get_dataset_entry: "if ds_id not in self.dataset_cache"
CheckCache(t) ==
    /\ stack[t] # << >>
    /\ Top(t).pc = "check"
    /\ stack' = SetTop(t, [Top(t) EXCEPT !.pc =
                    IF Top(t).ds_id \notin DOMAIN dataset_cache
                    THEN "lock" ELSE "ret"])
    /\ UNCHANGED <<config, dataset_cache, lock, call, result, handles,
                   opener_calls, calls, assigns, tg_vars, ml_vars>>

\* variant: the lock is not re-entrant
AcquireLockNotReentrant(t) ==
    /\ stack[t] # << >>
    /\ Top(t).pc = "lock"
    /\ lock.owner = NoThread
    /\ lock' = [owner |-> t, count |-> lock.count + 1]
    /\ stack' = SetTop(t, [Top(t) EXCEPT !.pc = "create"])
    /\ UNCHANGED <<config, dataset_cache, call, result, handles,
                   opener_calls, calls, assigns, tg_vars, ml_vars>>

\* _get_dataset_entry: "with self._lock" (re-entrant for the owner)
AcquireLock(t) ==
    /\ stack[t] # << >>
    /\ Top(t).pc = "lock"
    /\ lock.owner \in {NoThread, t}
    /\ lock' = [owner |-> t, count |-> lock.count + 1]
    /\ stack' = SetTop(t, [Top(t) EXCEPT !.pc = "create"])
    /\ UNCHANGED <<config, dataset_cache, call, result, handles,
                   opener_calls, calls, assigns, tg_vars, ml_vars>>

\* the exception of an external open that fails
OpenError(kind) == IF kind = "local-levels" THEN "ValueError" ELSE "OSError"

\* _create_dataset_entry up to the opening of a stored dataset, or up to
\* the arguments of a computed one
CreateEntry(t) ==
    /\ stack[t] # << >>
    /\ Top(t).pc = "create"
    /\ LET r == get_dataset_descriptor(config, Top(t).ds_id)
           d == r.descriptor[1]
           c == check_descriptor(d)
       IN  IF r.error # ""
           THEN Raise(t, r.error) /\ UNCHANGED <<handles, opener_calls>>
           ELSE IF c.error # ""
           THEN Raise(t, c.error) /\ UNCHANGED <<handles, opener_calls>>
           ELSE IF c.kind = "computed"
           THEN \/ \E e \in {"OSError", "ServiceError", "ServiceConfigError"} :
                     Raise(t, e) /\ UNCHANGED <<handles, opener_calls>>
                \/ /\ stack' = SetTop(t, [Top(t) EXCEPT !.pc = "args",
                                             !.descriptor = <<d>>, !.arg = 1])
                   /\ UNCHANGED <<dataset_cache, lock, result, handles,
                                  opener_calls>>
           ELSE \/ /\ Raise(t, OpenError(c.kind))
                   /\ opener_calls' = [opener_calls EXCEPT ![d.Identifier] = @ + 1]
                   /\ UNCHANGED handles
                \/ /\ handles' = Append(handles,
                                   [ds_id |-> d.Identifier, closes |-> 0,
                                    epoch |-> assigns])
                   /\ opener_calls' = [opener_calls EXCEPT ![d.Identifier] = @ + 1]
                   /\ stack' = SetTop(t, [Top(t) EXCEPT !.pc = "store",
                                             !.descriptor = <<d>>,
                                             !.ml_dataset = Len(handles) + 1])
                   /\ UNCHANGED <<dataset_cache, lock, result>>
    /\ UNCHANGED <<config, call, calls, assigns, tg_vars, ml_vars>>

\* _create_dataset_entry, computed dataset: parse_arg_value of the next
\* '@name@' argument, which calls get_dataset(name)
ParseArg(t) ==
    /\ stack[t] # << >>
    /\ Top(t).pc = "args"
    /\ LET refs == Top(t).descriptor[1].Refs
       IN  IF Top(t).arg > Len(refs)
           THEN /\ stack' = SetTop(t, [Top(t) EXCEPT !.pc = "call"])
                /\ UNCHANGED <<dataset_cache, lock, result>>
           ELSE LET r == get_dataset_descriptor(config, refs[Top(t).arg])
                IN  IF r.error # ""
                    THEN Raise(t, r.error)
                    ELSE IF Len(stack[t]) >= RecursionLimit
                    THEN Raise(t, "RecursionError")
                    ELSE /\ stack' = [stack EXCEPT ![t] =
                                        Append(@, Frame(refs[Top(t).arg]))]
                         /\ UNCHANGED <<dataset_cache, lock, result>>
    /\ UNCHANGED <<config, call, handles, opener_calls, calls, assigns,
                   tg_vars, ml_vars>>

\* _create_dataset_entry, computed dataset: the callable is invoked and its
\* result wrapped in a BaseMultiLevelDataset
CallComputed(t) ==
    /\ stack[t] # << >>
    /\ Top(t).pc = "call"
    /\ opener_calls' = [opener_calls EXCEPT ![Top(t).ds_id] = @ + 1]
    /\ \/ Raise(t, "ServiceError") /\ UNCHANGED handles
       \/ /\ handles' = Append(handles,
                          [ds_id |-> Top(t).ds_id, closes |-> 0,
                           epoch |-> assigns])
          /\ stack' = SetTop(t, [Top(t) EXCEPT !.pc = "store",
                                    !.ml_dataset = Len(handles) + 1])
          /\ UNCHANGED <<dataset_cache, lock, result>>
    /\ UNCHANGED <<config, call, calls, assigns, tg_vars, ml_vars>>

\* _get_dataset_entry: "self.dataset_cache[ds_id] = ..." and the end of
\* "with self._lock"
StoreEntry(t) ==
    /\ stack[t] # << >>
    /\ Top(t).pc = "store"
    /\ dataset_cache' = CachePut(dataset_cache, Top(t).ds_id,
                           [ml_dataset |-> Top(t).ml_dataset,
                            descriptor |-> Top(t).descriptor[1]])
    /\ lock' = Release(lock, 1)
    /\ stack' = SetTop(t, [Top(t) EXCEPT !.pc = "ret"])
    /\ UNCHANGED <<config, call, result, handles, opener_calls, calls,
                   assigns, tg_vars, ml_vars>>

\* variant: parse_arg_value does not go on to the next argument when the
\* referenced dataset has been returned
ReturnEntryKeepsArg(t) ==
    /\ stack[t] # << >>
    /\ Top(t).pc = "ret"
    /\ IF Top(t).ds_id \notin DOMAIN dataset_cache
       THEN Raise(t, "KeyError")
       ELSE IF Len(stack[t]) = 1
       THEN /\ stack' = [stack EXCEPT ![t] = << >>]
            /\ result' = [result EXCEPT ![t] =
                   [kind |-> "ok",
                    value |-> dataset_cache[Top(t).ds_id].ml_dataset,
                    error |-> "",
                    opened |-> Top(t).ml_dataset # 0]]
            /\ UNCHANGED <<dataset_cache, lock>>
       ELSE /\ stack' = [stack EXCEPT ![t] = SubSeq(@, 1, Len(@) - 1)]
            /\ UNCHANGED <<dataset_cache, lock, result>>
    /\ UNCHANGED <<config, call, handles, opener_calls, calls, assigns,
                   tg_vars, ml_vars>>

\* _get_dataset_entry: "return self.dataset_cache[ds_id]"; the caller is
\* the public method or parse_arg_value of the frame below
ReturnEntry(t) ==
    /\ stack[t] # << >>
    /\ Top(t).pc = "ret"
    /\ IF Top(t).ds_id \notin DOMAIN dataset_cache
       THEN Raise(t, "KeyError")
       ELSE IF Len(stack[t]) = 1
       THEN /\ stack' = [stack EXCEPT ![t] = << >>]
            /\ result' = [result EXCEPT ![t] =
                   [kind |-> "ok",
                    value |-> dataset_cache[Top(t).ds_id].ml_dataset,
                    error |-> "",
                    opened |-> Top(t).ml_dataset # 0]]
            /\ UNCHANGED <<dataset_cache, lock>>
       ELSE LET below == stack[t][Len(stack[t]) - 1]
            IN  /\ stack' = [stack EXCEPT ![t] =
                       SubSeq(@, 1, Len(@) - 2)
                       \o <<[below EXCEPT !.arg = @ + 1]>>]
                /\ UNCHANGED <<dataset_cache, lock, result>>
    /\ UNCHANGED <<config, call, handles, opener_calls, calls, assigns,
                   tg_vars, ml_vars>>

\* variant: a new configuration without datasets does not clear the cache
SetterCacheKeepsAll(cache, old_cfg, new_cfg) ==
    IF ~ConfigTruthy(old_cfg) \/ new_cfg.Datasets = << >>
    THEN cache
    ELSE IF old_cfg.Datasets # << >>
    THEN CacheDel(cache,
             {ds_name \in DOMAIN cache :
                find_dataset_descriptor(new_cfg.Datasets, ds_name) = None})
    ELSE cache

\* variant: every assignment empties the cache
SetterCacheClearsAll(cache, old_cfg, new_cfg) ==
    IF ~ConfigTruthy(old_cfg) THEN cache ELSE EmptyCache

\* the cache after the config setter, given the old and the new 'Datasets'
SetterCache(cache, old_cfg, new_cfg) ==
    IF ~ConfigTruthy(old_cfg)
    THEN cache
    ELSE
      LET old_dataset_descriptors == old_cfg.Datasets
          new_dataset_descriptors == new_cfg.Datasets
          cleared == IF new_dataset_descriptors = << >>
                     THEN EmptyCache ELSE cache
      IN  IF new_dataset_descriptors # << >> /\ old_dataset_descriptors # << >>
          THEN CacheDel(cleared,
                   {ds_name \in DOMAIN cleared :
                      find_dataset_descriptor(new_dataset_descriptors,
                                              ds_name) = None})
          ELSE cleared

\* variant: the second loop runs over the entries the first one has closed
SetterClosedTwice(cache, old_cfg, new_cfg) ==
    IF ~ConfigTruthy(old_cfg)
    THEN << {}, {} >>
    ELSE
      LET new_dataset_descriptors == new_cfg.Datasets
          first == IF new_dataset_descriptors = << >>
                   THEN {cache[id].ml_dataset : id \in DOMAIN cache} ELSE {}
          second == IF old_cfg.Datasets # << >>
                    THEN {cache[id].ml_dataset :
                            id \in {ds_name \in DOMAIN cache :
                               find_dataset_descriptor(new_dataset_descriptors,
                                                       ds_name) = None}}
                    ELSE {}
      IN  <<first, second>>

\* the handles on which the config setter calls close(), once each per loop
\* that reaches them
SetterClosed(cache, old_cfg, new_cfg) ==
    IF ~ConfigTruthy(old_cfg)
    THEN << {}, {} >>
    ELSE
      LET old_dataset_descriptors == old_cfg.Datasets
          new_dataset_descriptors == new_cfg.Datasets
          first == IF new_dataset_descriptors = << >>
                   THEN {cache[id].ml_dataset : id \in DOMAIN cache} ELSE {}
          cleared == IF new_dataset_descriptors = << >>
                     THEN EmptyCache ELSE cache
          second == IF new_dataset_descriptors # << >>
                       /\ old_dataset_descriptors # << >>
                    THEN {cleared[id].ml_dataset :
                            id \in {ds_name \in DOMAIN cleared :
                               find_dataset_descriptor(new_dataset_descriptors,
                                                       ds_name) = None}}
                    ELSE {}
      IN  <<first, second>>

\* the config setter, run by a caller while no get is in progress
SetConfig(new_cfg) ==
    /\ \A t \in Threads : stack[t] = << >>
    /\ assigns < MaxAssign
    /\ dataset_cache' = SetterCache(dataset_cache, config, new_cfg)
    /\ handles' = Close(Close(handles,
                              SetterClosed(dataset_cache, config, new_cfg)[1]),
                        SetterClosed(dataset_cache, config, new_cfg)[2])
    /\ config' = new_cfg
    /\ assigns' = assigns + 1
    /\ UNCHANGED <<lock, stack, call, result, opener_calls, calls, tg_vars, ml_vars>>

\* the config setter, run to its end between two steps of the gets that
\* are in progress: the setter does not take the lock
AssignConfig(new_cfg) ==
    /\ assigns < MaxAssign
    /\ dataset_cache' = SetterCache(dataset_cache, config, new_cfg)
    /\ handles' = Close(Close(handles,
                              SetterClosed(dataset_cache, config, new_cfg)[1]),
                        SetterClosed(dataset_cache, config, new_cfg)[2])
    /\ config' = new_cfg
    /\ assigns' = assigns + 1
    /\ UNCHANGED <<lock, stack, call, result, opener_calls, calls, tg_vars, ml_vars>>

(***************************************************************************)
(* pyramid.py: LazyMultiLevelDataset and StoredMultiLevelDataset           *)
(***************************************************************************)
\* The entries of a directory, as <<index, kind>>: "zarr" is a directory
\* <index>.zarr, "link" a file <index>.link, "other" any other entry whose
\* basename is the digits of index (a file <index>.zarr, <index>.txt), and
\* "name" an entry whose basename is not made of digits.
Entries ==
    ((0..MaxLevels) \X {"zarr", "link", "other"}) \cup {<<0, "name">>}

Listings == SUBSET Entries

\* the object before its constructor has run
NoDataset ==
    [status |-> "none", stored |-> FALSE, num_levels |-> 0,
     level_paths |-> << >>, level_datasets |-> << >>]

\* LazyMultiLevelDataset.__init__(num_levels)
LazyMultiLevelDataset(num_levels) ==
    IF num_levels < 1
    THEN [NoDataset EXCEPT !.status = "ValueError"]
    ELSE [NoDataset EXCEPT !.status = "ok", !.num_levels = num_levels,
                           !.level_datasets = [i \in 1..num_levels |-> None]]

\* the indices for which the loop of StoredMultiLevelDataset.__init__ sets
\* level_paths[index]
LevelIndices(listing) ==
    {e[1] : e \in {e \in listing : e[2] \in {"zarr", "link"}}}

\* the dictionaries level_paths that the loop can end with: os.listdir gives
\* the entries in any order, and a later entry of an index replaces an
\* earlier one
LevelPaths(listing) ==
    {f \in [LevelIndices(listing) -> {"zarr", "link"}] :
        \A i \in LevelIndices(listing) : <<i, f[i]>> \in listing}

\* num_levels after the loop of StoredMultiLevelDataset.__init__
MaxIndexPlusOne(listing) ==
    LET digits == {e[1] : e \in {e \in listing : e[2] # "name"}}
    IN  IF digits = {}
        THEN -1
        ELSE 1 + CHOOSE i \in digits : \A j \in digits : j <= i

\* StoredMultiLevelDataset.__init__(dir_path), the loop having ended with
\* level_paths
StoredMultiLevelDataset(listing, level_paths) ==
    IF MaxIndexPlusOne(listing) # Cardinality(DOMAIN level_paths)
    THEN [NoDataset EXCEPT !.status = "ValueError", !.stored = TRUE]
    ELSE [LazyMultiLevelDataset(MaxIndexPlusOne(listing))
            EXCEPT !.stored = TRUE, !.level_paths = level_paths]

\* self._level_datasets[index] of a list of n slots: the slot, counted from
\* 1, that a Python index in -n .. n-1 selects
InRange(index, n) == -n <= index /\ index < n

Slot(index, n) == IF index < 0 THEN n + index + 1 ELSE index + 1

ReadOps == {"get_dataset", "base_dataset", "datasets"}

Idle == [pc |-> "idle", op |-> "none", index |-> 0, value |-> 0,
         out |-> << >>, error |-> ""]

MlInit ==
    /\ dir_listing = {}
    /\ mld = NoDataset
    /\ level_handles = << >>
    /\ lazily_calls = [i \in (-MaxLevels)..MaxLevels |-> 0]
    /\ rd = [t \in Threads |-> Idle]
    /\ reads = 0

\* a LazyMultiLevelDataset of num_levels levels is constructed
LazyInit(num_levels) ==
    /\ mld.status = "none"
    /\ mld' = LazyMultiLevelDataset(num_levels)
    /\ UNCHANGED <<dir_listing, level_handles, lazily_calls, rd, reads,
                   ctx_vars, tg_vars>>

\* a StoredMultiLevelDataset is constructed on a directory
StoredInit(listing) ==
    /\ mld.status = "none"
    /\ dir_listing' = listing
    /\ \E level_paths \in LevelPaths(listing) :
          mld' = StoredMultiLevelDataset(listing, level_paths)
    /\ UNCHANGED <<level_handles, lazily_calls, rd, reads, ctx_vars, tg_vars>>

\* thread t calls get_dataset(index), base_dataset (get_dataset(0)) or
\* datasets (get_dataset(i) for i in range(num_levels))
StartRead(t, op, index) ==
    /\ mld.status = "ok"
    /\ rd[t].pc = "idle"
    /\ reads < MaxReads
    /\ op # "get_dataset" => index = 0
    /\ rd' = [rd EXCEPT ![t] = [Idle EXCEPT !.pc = "check", !.op = op,
                                            !.index = index]]
    /\ reads' = reads + 1
    /\ UNCHANGED <<dir_listing, mld, level_handles, lazily_calls,
                   ctx_vars, tg_vars>>

\* context.py, get_variable_for_z(ds_id, var_name, z_index), for the
\* ml_dataset that get_ml_dataset(ds_id) returned: thread t calls
\* ml_dataset.get_dataset(ml_dataset.num_levels - 1 - z_index)
StartReadZ(t, z_index) ==
    /\ mld.status = "ok"
    /\ rd[t].pc = "idle"
    /\ reads < MaxReads
    /\ rd' = [rd EXCEPT ![t] = [Idle EXCEPT !.pc = "check",
                                 !.op = "get_variable_for_z",
                                 !.index = mld.num_levels - 1 - z_index]]
    /\ reads' = reads + 1
    /\ UNCHANGED <<dir_listing, mld, level_handles, lazily_calls,
                   ctx_vars, tg_vars>>

\* the exception leaves get_dataset and the property that called it
RaiseRead(t, e) ==
    rd' = [rd EXCEPT ![t] = [@ EXCEPT !.pc = "idle", !.error = e]]

\* get_dataset without the test of the slot: the level is always retrieved
CheckLevelAlwaysMiss(t) ==
    /\ rd[t].pc = "check"
    /\ IF ~InRange(rd[t].index, mld.num_levels)
       THEN RaiseRead(t, "IndexError")
       ELSE rd' = [rd EXCEPT ![t].pc = "lazily"]
    /\ UNCHANGED <<dir_listing, mld, level_handles, lazily_calls, reads,
                   ctx_vars, tg_vars>>

\* get_dataset: "if self._level_datasets[index] is None"
CheckLevel(t) ==
    /\ rd[t].pc = "check"
    /\ IF ~InRange(rd[t].index, mld.num_levels)
       THEN RaiseRead(t, "IndexError")
       ELSE rd' = [rd EXCEPT ![t].pc =
                     IF mld.level_datasets[Slot(rd[t].index, mld.num_levels)]
                          = None
                     THEN "lazily" ELSE "return"]
    /\ UNCHANGED <<dir_listing, mld, level_handles, lazily_calls, reads,
                   ctx_vars, tg_vars>>

\* get_dataset: "self.get_dataset_lazily(index, ...)" is called; the stored
\* variant looks up self._level_paths[index] and reads the level, which can
\* fail, as can the retrieval of any other variant
GetDatasetLazily(t) ==
    /\ rd[t].pc = "lazily"
    /\ lazily_calls' = [lazily_calls EXCEPT ![rd[t].index] = @ + 1]
    /\ IF mld.stored /\ rd[t].index \notin DOMAIN mld.level_paths
       THEN RaiseRead(t, "KeyError") /\ UNCHANGED level_handles
       ELSE \/ RaiseRead(t, "OSError") /\ UNCHANGED level_handles
            \/ /\ level_handles' = Append(level_handles, rd[t].index)
               /\ rd' = [rd EXCEPT ![t] = [@ EXCEPT !.pc = "store",
                                    !.value = Len(level_handles) + 1]]
    /\ UNCHANGED <<dir_listing, mld, reads, ctx_vars, tg_vars>>

\* get_dataset: "self._level_datasets[index] = ..."
StoreLevel(t) ==
    /\ rd[t].pc = "store"
    /\ mld' = [mld EXCEPT
                 !.level_datasets[Slot(rd[t].index, mld.num_levels)] =
                     Some(rd[t].value)]
    /\ rd' = [rd EXCEPT ![t].pc = "return"]
    /\ UNCHANGED <<dir_listing, level_handles, lazily_calls, reads,
                   ctx_vars, tg_vars>>

\* get_dataset: "return self._level_datasets[index]"; datasets goes on with
\* the next index
ReturnLevel(t) ==
    /\ rd[t].pc = "return"
    /\ rd' = [rd EXCEPT ![t] =
         [@ EXCEPT
            !.out = Append(@, mld.level_datasets[
                                 Slot(rd[t].index, mld.num_levels)][1]),
            !.pc = IF rd[t].op = "datasets"
                      /\ rd[t].index + 1 < mld.num_levels
                   THEN "check"
                   ELSE IF rd[t].op = "get_variable_for_z" THEN "var"
                   ELSE "idle",
            !.index = IF rd[t].op = "datasets" THEN rd[t].index + 1
                      ELSE rd[t].index]]
    /\ UNCHANGED <<dir_listing, mld, level_handles, lazily_calls, reads,
                   ctx_vars, tg_vars>>

\* get_variable_for_z: "if var_name not in dataset: raise ...", else
\* "return dataset[var_name]"
LookupVariable(t) ==
    /\ rd[t].pc = "var"
    /\ \/ rd' = [rd EXCEPT ![t].pc = "idle"]
       \/ rd' = [rd EXCEPT ![t] = [@ EXCEPT !.pc = "idle", !.out = << >>,
                            !.error = "ServiceResourceNotFoundError"]]
    /\ UNCHANGED <<dir_listing, mld, level_handles, lazily_calls, reads,
                   ctx_vars, tg_vars>>

(***************************************************************************)
(* The calls of the tile grid functions                                    *)
(***************************************************************************)
NoCall == [op |-> "none"]

TgInit ==
    /\ tg_call = NoCall
    /\ tg_result = [error |-> "none"]

\* the preferred tile sizes that are enumerated: none, or 1..MaxTsOpt
TsOpts == {None} \cup {Some(v) : v \in 1..MaxTsOpt}

\* the demo cube of the tests: 2000 x 1000 pixels in chunks of 250 x 250,
\* as (w, h, w_mode, h_mode, tw_opt, th_opt)
DemoArgs == <<2000, 1000, MODE_GE, MODE_GE, Some(250), Some(250)>>

\* the extent of the demo cube: 0..5 degrees east, 50..52.5 degrees north
DemoExtent == GeoExtent(<<0, 1>>, <<500, 1>>, <<50, 1>>, <<525, 1>>, TRUE)

GlobalExtent ==
    GeoExtent(<<-Deg180, 1>>, <<-Deg90, 1>>, <<Deg180, 1>>, <<Deg90, 1>>, TRUE)

\* rasters of a single row, as (w, h, w_mode, h_mode, tw_opt, th_opt)
RowArgs ==
    {<<16, 1, MODE_EQ, MODE_EQ, Some(2), None>>,
     <<4096, 1, MODE_EQ, MODE_EQ, Some(DefaultTileSize), None>>}

\* the arguments (w, h, w_mode, h_mode, tw_opt, th_opt) that are enumerated
SubdivisionArgs ==
    ((1..MaxSize) \X (1..MaxSize) \X Modes \X Modes \X TsOpts \X TsOpts)
    \cup {DemoArgs} \cup RowArgs

\* pow2_2d_subdivision(w, h, w_mode, h_mode, tw_opt, th_opt) is called
Subdivide ==
    /\ tg_call = NoCall
    /\ \E a \in SubdivisionArgs :
         /\ tg_call' = [op |-> "pow2_2d_subdivision",
                        w |-> a[1], h |-> a[2], w_mode |-> a[3],
                        h_mode |-> a[4], tw_opt |-> a[5], th_opt |-> a[6]]
         /\ tg_result' = pow2_2d_subdivision(a[1], a[2], a[3], a[4], a[5], a[6],
                             None, None, None, None, None, None)
    /\ UNCHANGED <<ctx_vars, ml_vars>>

\* global rasters created with the default tile size, as
\* (w, h, tile_width, tile_height, geo_extent)
WorldArgs ==
    {<<1024, 512, None, None, GlobalExtent>>,
     <<2048, 1024, None, None, GlobalExtent>>}

\* the arguments (w, h, tile_width, tile_height, geo_extent) of create
CreateArgs ==
    ((1..MaxSize) \X (1..MaxSize) \X TsOpts \X TsOpts
        \X {DemoExtent, GlobalExtent})
    \cup {<<DemoArgs[1], DemoArgs[2], DemoArgs[5], DemoArgs[6], DemoExtent>>}
    \cup WorldArgs

\* TileGrid.create(w, h, tile_width, tile_height, geo_extent) is called
Create ==
    /\ tg_call = NoCall
    /\ \E a \in CreateArgs :
         /\ tg_call' = [op |-> "create", w |-> a[1], h |-> a[2],
                        tile_width |-> a[3], tile_height |-> a[4],
                        geo_extent |-> a[5]]
         /\ tg_result' = create(a[1], a[2], a[3], a[4], a[5])
    /\ UNCHANGED <<ctx_vars, ml_vars>>

\* pow2_1d_subdivision(s_act, s_mode, ts_opt) is called
Subdivision1d ==
    /\ tg_call = NoCall
    /\ \E s_act \in 1..MaxSize, s_mode \in Modes, ts_opt \in TsOpts :
         /\ tg_call' = [op |-> "pow2_1d_subdivision", s_act |-> s_act,
                        s_mode |-> s_mode, ts_opt |-> ts_opt]
         /\ tg_result' = pow2_1d_subdivision(s_act, s_mode, ts_opt,
                                             None, None, None, None)
    /\ UNCHANGED <<ctx_vars, ml_vars>>

\* extents that cross the anti-meridian: 170 .. -170 degrees east, and
\* 100 .. 99 degrees east
AntiMeridianExtents ==
    {GeoExtent(<<1700, 1>>, <<-Deg90, 1>>, <<-1700, 1>>, <<Deg90, 1>>, TRUE),
     GeoExtent(<<1000, 1>>, <<-Deg90, 1>>, <<990, 1>>, <<Deg90, 1>>, TRUE)}

\* TileGrid.adjust_geo_extent(geo_extent, w_old, h_old, w_new, h_new) is
\* called
Adjust ==
    /\ tg_call = NoCall
    /\ \E geo_extent \in AntiMeridianExtents \cup {DemoExtent, GlobalExtent},
          w_old \in 1..3, h_old \in 1..3,
          w_new \in 1..MaxSize, h_new \in 1..MaxSize :
         /\ tg_call' = [op |-> "adjust_geo_extent", geo_extent |-> geo_extent,
                        w_old |-> w_old, h_old |-> h_old,
                        w_new |-> w_new, h_new |-> h_new]
         /\ tg_result' = adjust_geo_extent(geo_extent, w_old, h_old,
                                           w_new, h_new)
    /\ UNCHANGED <<ctx_vars, ml_vars>>

\* the values of an optional parameter that are enumerated: not supplied,
\* negative, zero and positive
ParamValues(positive) == {None, Some(-1), Some(0), Some(positive)}

\* pow2_1d_subdivisions(s, s_mode, ts_opt, ts_min, ts_max, nt0_max, nl_max)
\* is called with supplied bounds
Subdivisions1d ==
    /\ tg_call = NoCall
    /\ \E s \in (-1)..3, s_mode \in Modes,
          ts_opt \in ParamValues(1) \cup {Some(2)},
          ts_min \in ParamValues(1), ts_max \in ParamValues(2),
          nt0_max \in ParamValues(3), nl_max \in ParamValues(3) :
         /\ tg_call' = [op |-> "pow2_1d_subdivisions", s |-> s,
                        s_mode |-> s_mode, ts_opt |-> ts_opt,
                        ts_min |-> ts_min, ts_max |-> ts_max,
                        nt0_max |-> nt0_max, nl_max |-> nl_max]
         /\ tg_result' = pow2_1d_subdivisions(s, s_mode, ts_opt, ts_min,
                                              ts_max, nt0_max, nl_max)
    /\ UNCHANGED <<ctx_vars, ml_vars>>

\* the tile grids that are compared: every combination of two values of
\* each argument of TileGrid
EqGrids ==
    {TileGrid(nl, nx, ny, tw, th, e) :
        nl \in {1, 2}, nx \in {1, 2}, ny \in {1, 2}, tw \in {1, 256},
        th \in {1, 256}, e \in {DemoExtent, GlobalExtent}}

\* objects that are not tile grids: without attributes, and with some of them
OtherObjects ==
    {[name |-> "o"], [num_levels |-> 1, tile_width |-> 1],
     [num_levels |-> 2, tile_width |-> 1, tile_height |-> 1,
      num_level_zero_tiles_x |-> 1, num_level_zero_tiles_y |-> 1]}

\* a == o is evaluated for a tile grid a
Compare ==
    /\ tg_call = NoCall
    /\ \E a \in EqGrids, o \in EqGrids \cup OtherObjects :
         /\ tg_call' = [op |-> "__eq__", self |-> a, o |-> o]
         /\ tg_result' = [error |-> "", value |-> tile_grid_eq(a, o)]
    /\ UNCHANGED <<ctx_vars, ml_vars>>

(***************************************************************************)
(* Specifications                                                          *)
(***************************************************************************)
Init == CtxInit /\ TgInit /\ MlInit

\* the steps of a get by thread t
GetStep(t) ==
    \/ CheckCache(t)
    \/ AcquireLock(t)
    \/ CreateEntry(t)
    \/ ParseArg(t)
    \/ CallComputed(t)
    \/ StoreEntry(t)
    \/ ReturnEntry(t)

\* request threads call the get methods concurrently
Next ==
    \E t \in Threads :
        \/ \E op \in GetOps, ds_id \in Ids : StartGet(t, op, ds_id)
        \/ GetStep(t)

Spec == Init /\ [][Next]_vars

\* the one caller of the sequential runs
Caller == CHOOSE t \in Threads : \A u \in Threads : t <= u

\* the caller starts a get when its previous call has returned
SeqStartGet(op, ds_id) == StartGet(Caller, op, ds_id)

\* one caller: gets and configuration assignments one at a time
SeqNext ==
    \/ \E op \in GetOps, ds_id \in Ids : SeqStartGet(op, ds_id)
    \/ GetStep(Caller)
    \/ \E new_cfg \in Configs : SetConfig(new_cfg)

SeqSpec == Init /\ [][SeqNext]_vars

\* hot reload: request threads call the get methods and keep the handle
\* they were given, while the configuration is assigned between their calls
ReloadNext ==
    \/ \E t \in Threads :
          \/ \E op \in GetOps, ds_id \in Ids : StartGet(t, op, ds_id)
          \/ GetStep(t)
    \/ \E new_cfg \in Configs : SetConfig(new_cfg)

ReloadSpec == Init /\ [][ReloadNext]_vars

\* request threads call get_dataset while the configuration is assigned at
\* any point of their calls
RaceNext ==
    \/ \E t \in Threads :
          \/ \E ds_id \in Ids : StartGet(t, "get_dataset", ds_id)
          \/ GetStep(t)
    \/ \E new_cfg \in Configs : AssignConfig(new_cfg)

RaceSpec == Init /\ [][RaceNext]_vars

\* the state after the construction of the context with one of configs
StartWith(configs) ==
    /\ config \in configs
    /\ dataset_cache = EmptyCache
    /\ lock = [owner |-> NoThread, count |-> 0]
    /\ stack = [t \in Threads |-> << >>]
    /\ call = [t \in Threads |-> [op |-> "none", ds_id |-> "", epoch |-> 0]]
    /\ result = [t \in Threads |-> NoResult]
    /\ handles = << >>
    /\ opener_calls = [id \in Ids |-> 0]
    /\ calls = 0
    /\ assigns = 0
    /\ TgInit
    /\ MlInit

\* one caller calls the get methods under a configuration with references
\* among computed datasets; a call that has started goes on until it returns
RefInit == StartWith(RefConfigs)

RefNext ==
    \/ \E op \in GetOps, ds_id \in Ids : SeqStartGet(op, ds_id)
    \/ GetStep(Caller)

RefSpec == RefInit /\ [][RefNext]_vars /\ WF_vars(GetStep(Caller))

\* the one request of thread t
FirstGet(t, ds_id) == call[t].op = "none" /\ StartGet(t, "get_dataset", ds_id)

\* every request thread calls get_dataset once, concurrently with the
\* others; every thread that can take a step of its call is scheduled
LiveNext ==
    \E t \in Threads :
        \/ \E ds_id \in Ids : FirstGet(t, ds_id)
        \/ GetStep(t)

\* stored datasets A and B and the computed dataset C, which references A
LiveInit == StartWith({Config({"Datasets"}, <<DescA, DescB, DescC>>)})

LiveSpec ==
    LiveInit /\ [][LiveNext]_vars /\ \A t \in Threads : WF_vars(GetStep(t))

\* one call of a tile grid function
TgNext == Subdivide \/ Create \/ Compare \/ Subdivisions1d \/ Adjust
    \/ Subdivision1d

TgSpecInit == Init /\ config = Config({}, << >>)

TgSpec == TgSpecInit /\ [][TgNext]_vars

\* the steps of a get_dataset by thread t
ReadStep(t) ==
    \/ CheckLevel(t)
    \/ GetDatasetLazily(t)
    \/ StoreLevel(t)
    \/ ReturnLevel(t)
    \/ LookupVariable(t)

\* the directories on which the datasets that are read are constructed
ReadListings ==
    {{<<0, "zarr">>},
     {<<0, "link">>, <<1, "zarr">>, <<0, "name">>},
     {<<0, "zarr">>, <<1, "zarr">>, <<1, "link">>},
     {<<1, "zarr">>}}

MlConstruct ==
    \/ \E num_levels \in 0..MaxLevels : LazyInit(num_levels)
    \/ \E listing \in ReadListings : StoredInit(listing)

\* threads call get_dataset, base_dataset and datasets of one dataset
\* concurrently
MlNext ==
    \/ MlConstruct
    \/ \E t \in Threads :
          \/ \E op \in ReadOps, index \in (-1)..MaxLevels :
                StartRead(t, op, index)
          \/ \E z_index \in (-1)..(MaxLevels + 1) : StartReadZ(t, z_index)
          \/ ReadStep(t)

MlSpecInit == Init /\ config = Config({}, << >>)

MlSpec == MlSpecInit /\ [][MlNext]_vars

\* one caller at a time
SeqStartRead(op, index) == StartRead(Caller, op, index)

SeqStartReadZ(z_index) == StartReadZ(Caller, z_index)

MlSeqNext ==
    \/ MlConstruct
    \/ \E op \in ReadOps, index \in (-1)..MaxLevels : SeqStartRead(op, index)
    \/ \E z_index \in (-1)..(MaxLevels + 1) : SeqStartReadZ(z_index)
    \/ ReadStep(Caller)

MlSeqSpec == MlSpecInit /\ [][MlSeqNext]_vars

\* a StoredMultiLevelDataset is constructed on any directory
DirNext == \E listing \in Listings : StoredInit(listing)

DirSpec == MlSpecInit /\ [][DirNext]_vars

(***************************************************************************)
(* The dataset registry                                                    *)
(***************************************************************************)

\* C1 (Spec): under concurrent gets at most one handle is open per
\* identifier: the opener is never invoked for an identifier that has an
\* open handle, and no open handle is replaced in the cache without having
\* been closed.
C1_AtMostOneOpenHandle ==
    /\ [](\A id \in Ids :
            Cardinality({h \in DOMAIN handles :
                           handles[h].ds_id = id /\ handles[h].closes = 0}) <= 1)
    /\ [][\A id \in Ids :
            /\ opener_calls'[id] > opener_calls[id]
                 => \A h \in DOMAIN handles :
                       handles[h].ds_id = id => handles[h].closes > 0
            /\ (/\ id \in DOMAIN dataset_cache
                /\ id \in DOMAIN dataset_cache'
                /\ dataset_cache'[id].ml_dataset # dataset_cache[id].ml_dataset)
                 => handles[dataset_cache[id].ml_dataset].closes > 0]_vars

\* C2 (SeqSpec): when an assignment of a configuration returns, the cache
\* holds no identifier that the new 'Datasets' list does not name (it is
\* empty when the new configuration has no datasets), and the handle of
\* every entry the assignment removed has been closed.
C2_AssignmentPrunesCache ==
    [][assigns' # assigns =>
         /\ \A id \in DOMAIN dataset_cache' :
               find_dataset_descriptor(config'.Datasets, id) # None
         /\ config'.Datasets = << >> => dataset_cache' = EmptyCache
         /\ \A id \in DOMAIN dataset_cache \ DOMAIN dataset_cache' :
               handles'[dataset_cache[id].ml_dataset].closes >= 1]_vars

\* an assignment has removed and closed one entry and kept another
C2_Witness ==
    /\ assigns >= 1
    /\ dataset_cache # EmptyCache
    /\ \E h \in DOMAIN handles :
         /\ handles[h].closes = 1
         /\ handles[h].epoch < assigns
         /\ handles[h].ds_id \notin DOMAIN dataset_cache
         /\ find_dataset_descriptor(config.Datasets, handles[h].ds_id) = None

\* C3 (SeqSpec): an assignment leaves the entries whose identifier the new
\* 'Datasets' list still names untouched (same pair, handle not closed), it
\* opens nothing and adds no entry; a cached handle is open and is the last
\* one opened for its identifier, so a later get does not open it again.
C3_AssignmentKeepsListed ==
    /\ [][assigns' # assigns =>
            /\ \A id \in DOMAIN dataset_cache :
                  find_dataset_descriptor(config'.Datasets, id) # None
                    => /\ id \in DOMAIN dataset_cache'
                       /\ dataset_cache'[id] = dataset_cache[id]
                       /\ handles'[dataset_cache[id].ml_dataset]
                            = handles[dataset_cache[id].ml_dataset]
            /\ DOMAIN dataset_cache' \subseteq DOMAIN dataset_cache
            /\ opener_calls' = opener_calls
            /\ Len(handles') = Len(handles)]_vars
    /\ [](\A id \in DOMAIN dataset_cache :
            /\ handles[dataset_cache[id].ml_dataset].closes = 0
            /\ \A h \in DOMAIN handles :
                  handles[h].ds_id = id => h <= dataset_cache[id].ml_dataset)

\* a get after an assignment returned the handle opened before the assignment
C3_Witness ==
    /\ stack[Caller] = << >>
    /\ result[Caller].kind = "ok"
    /\ ~result[Caller].opened
    /\ call[Caller].ds_id \in DOMAIN dataset_cache
    /\ dataset_cache[call[Caller].ds_id].ml_dataset = result[Caller].value
    /\ handles[result[Caller].value].epoch < call[Caller].epoch
    /\ handles[result[Caller].value].closes = 0

\* C4 (SeqSpec): between two assignments an identifier is opened at most
\* once: no two handles of one identifier are opened under the same
\* configuration, no step invokes the opener for an identifier that is
\* cached, and every get of a cached identifier, by whichever method,
\* returns the cached handle.
C4_OpenedOncePerConfig ==
    /\ [](\A h1, h2 \in DOMAIN handles :
            (handles[h1].ds_id = handles[h2].ds_id
             /\ handles[h1].epoch = handles[h2].epoch) => h1 = h2)
    /\ [][\A id \in DOMAIN dataset_cache :
            /\ opener_calls'[id] = opener_calls[id]
            /\ (/\ result[Caller].kind = "none"
                /\ result'[Caller].kind # "none"
                /\ call[Caller].ds_id = id)
                 => /\ result'[Caller].kind = "ok"
                    /\ result'[Caller].value = dataset_cache[id].ml_dataset]_vars

\* get_tile_grid returned the entry an earlier get had opened and cached
C4_Witness ==
    /\ stack[Caller] = << >>
    /\ result[Caller].kind = "ok"
    /\ ~result[Caller].opened
    /\ call[Caller].op = "get_tile_grid"
    /\ opener_calls[call[Caller].ds_id] = 1
    /\ handles[result[Caller].value].epoch = call[Caller].epoch

\* C5 (SeqSpec): when a get fails, the caller receives the error with all
\* frames left and the lock released, the cache is as before and holds none
\* of the identifiers that were being created; every cache entry is a handle
\* that was opened for its identifier.
C5_FailedOpenLeavesNoTrace ==
    /\ [][\A t \in Threads :
            (result'[t].kind = "error" /\ result[t].kind # "error")
              => /\ stack'[t] = << >>
                 /\ result'[t].error # ""
                 /\ lock'.owner = NoThread
                 /\ dataset_cache' = dataset_cache
                 /\ \A i \in 1..Len(stack[t]) :
                       stack[t][i].ds_id \notin DOMAIN dataset_cache']_vars
    /\ [](\A id \in DOMAIN dataset_cache :
            /\ dataset_cache[id].ml_dataset \in DOMAIN handles
            /\ handles[dataset_cache[id].ml_dataset].ds_id = id)

\* the open of an identifier failed, the next get opened and cached it
C5_Witness ==
    /\ stack[Caller] = << >>
    /\ result[Caller].kind = "ok"
    /\ result[Caller].opened
    /\ opener_calls[call[Caller].ds_id] = 2
    /\ Cardinality({h \in DOMAIN handles :
                      handles[h].ds_id = call[Caller].ds_id}) = 1

\* C6 as stated (SeqSpec): a get of an uncached identifier fails with the
\* not-found error when the configuration has datasets but none with the
\* identifier, and with the configuration error when no datasets are
\* configured or the descriptor lacks 'Path', 'Format' or 'FileSystem'.
C6_ErrorsAsStated ==
    \A t \in Threads :
      (/\ stack[t] = << >>
       /\ result[t].kind # "none"
       /\ call[t].epoch = assigns
       /\ (result[t].kind = "error" \/ result[t].opened))
        => LET d == find_dataset_descriptor(config.Datasets, call[t].ds_id)
           IN  /\ (config.Datasets # << >> /\ d = None)
                    => result[t].error = "ServiceResourceNotFoundError"
               /\ config.Datasets = << >>
                    => result[t].error = "ServiceConfigError"
               /\ (d # None /\ (\/ d[1].Path = ""
                                \/ d[1].Format = ""
                                \/ d[1].FileSystem = ""))
                    => result[t].error = "ServiceConfigError"

\* C6 (SeqSpec): a get of an uncached identifier fails with the not-found
\* error when the configuration has datasets but none with the identifier,
\* and with the configuration error when no datasets are configured, when
\* the descriptor has no 'Path', or when its 'FileSystem' or 'Format' is not
\* a supported value; a missing 'FileSystem' means local and a missing
\* 'Format' the default of the file system, so a stored dataset described
\* by identifier and path alone does not fail with the configuration error.
C6_ErrorsWithDefaults ==
    \A t \in Threads :
      (/\ stack[t] = << >>
       /\ result[t].kind # "none"
       /\ call[t].epoch = assigns
       /\ (result[t].kind = "error" \/ result[t].opened))
        => LET d == find_dataset_descriptor(config.Datasets, call[t].ds_id)
           IN  /\ (config.Datasets # << >> /\ d = None)
                    => result[t].error = "ServiceResourceNotFoundError"
               /\ config.Datasets = << >>
                    => result[t].error = "ServiceConfigError"
               /\ (d # None /\
                   (\/ d[1].Path = ""
                    \/ d[1].FileSystem \notin {"", "local", "obs", "computed"}
                    \/ /\ d[1].FileSystem \in {"", "local"}
                       /\ d[1].Format \notin {"", "nc", "zarr", "levels"}
                    \/ /\ d[1].FileSystem = "obs"
                       /\ d[1].Format \notin {"", "zarr"}))
                    => result[t].error = "ServiceConfigError"
               /\ (d # None /\ d[1].Path # ""
                   /\ d[1].FileSystem \in {"", "local", "obs"}
                   /\ d[1].Format = "")
                    => result[t].error # "ServiceConfigError"

\* a dataset described by identifier and path alone was opened and returned
C6_Witness ==
    /\ stack[Caller] = << >>
    /\ call[Caller].epoch = assigns
    /\ result[Caller].kind = "ok"
    /\ result[Caller].opened
    /\ find_dataset_descriptor(config.Datasets, call[Caller].ds_id) = <<DescA>>

\* C7 (SeqSpec): a handle is closed at most once; between calls a handle is
\* closed exactly when it is no longer the cached one of its identifier
\* (also after an assignment of a configuration without datasets); no get
\* returns a closed handle, so a later get of a removed identifier returns
\* a handle opened afresh.
C7_RemovedHandleClosedOnce ==
    /\ [](\A h \in DOMAIN handles :
            /\ handles[h].closes <= 1
            /\ stack[Caller] = << >>
                 => (handles[h].closes = 1
                       <=> ~(/\ handles[h].ds_id \in DOMAIN dataset_cache
                             /\ dataset_cache[handles[h].ds_id].ml_dataset = h)))
    /\ [][\A t \in Threads :
            (result'[t] # result[t] /\ result'[t].kind = "ok")
              => handles'[result'[t].value].closes = 0]_vars

\* "A" was opened, removed by an assignment and closed once, and a later get
\* under a configuration that names it again returned another handle
C7_Witness ==
    /\ stack[Caller] = << >>
    /\ call[Caller].ds_id = "A"
    /\ result[Caller].kind = "ok"
    /\ result[Caller].opened
    /\ \E h \in DOMAIN handles :
         /\ handles[h].ds_id = "A"
         /\ handles[h].closes = 1
         /\ h < result[Caller].value
         /\ handles[result[Caller].value].closes = 0

(***************************************************************************)
(* The tile pyramid                                                        *)
(***************************************************************************)

\* C8 (TgSpec): for every w, h >= 1, every mode and every preferred tile
\* size >= 1 or none, pow2_2d_subdivision returns without raising, with at
\* least one level, tile sizes >= 1 and level-zero tile counts >= 1.
C8_SubdivisionNeverRaises ==
    tg_call.op = "pow2_2d_subdivision"
      => /\ tg_result.error = ""
         /\ tg_result.nl >= 1
         /\ tg_result.tw >= 1
         /\ tg_result.th >= 1
         /\ tg_result.nt0_x >= 1
         /\ tg_result.nt0_y >= 1

\* C9 (TgSpec): the size of the highest level of the tile grid built from a
\* result of pow2_2d_subdivision, or by TileGrid.create, is >= the requested
\* size on an axis of mode GE, equal to it for EQ and <= it for LE, also
\* when the level counts of the two axes had to be reconciled.
C9_ExtentRespectsMode ==
    LET Respects(mode, requested, actual) ==
            /\ mode = MODE_GE => actual >= requested
            /\ mode = MODE_EQ => actual = requested
            /\ mode = MODE_LE => actual <= requested
    IN  /\ (tg_call.op = "pow2_2d_subdivision" /\ tg_result.error = "")
             => LET tg == TileGrid(tg_result.nl, tg_result.nt0_x,
                                   tg_result.nt0_y, tg_result.tw,
                                   tg_result.th, None)
                IN  /\ Respects(tg_call.w_mode, tg_call.w, max_width(tg))
                    /\ Respects(tg_call.h_mode, tg_call.h, max_height(tg))
        /\ (tg_call.op = "create" /\ tg_result.error = "")
             => /\ Respects(create_w_mode(tg_call.geo_extent), tg_call.w,
                            max_width(tg_result.tile_grid))
                /\ Respects(create_h_mode(tg_call.geo_extent), tg_call.h,
                            max_height(tg_result.tile_grid))

\* a result in mode LE by EQ whose level count is smaller than the one the
\* x axis had alone, with the level-zero tile count recomputed
C9_Witness ==
    /\ tg_call.op = "pow2_2d_subdivision"
    /\ tg_result.error = ""
    /\ tg_call.w_mode = MODE_LE
    /\ tg_call.h_mode = MODE_EQ
    /\ pow2_1d_subdivision(tg_call.w, tg_call.w_mode, tg_call.tw_opt,
                           None, None, None, None).rec[4] > tg_result.nl
    /\ tg_result.nt0_x > 1

\* C10 (TgSpec): for the demo cube, 2000 x 1000 pixels in chunks of
\* 250 x 250 with mode GE on both axes, pow2_2d_subdivision yields 3 levels,
\* tiles of 250 x 250, 2 x 1 level-zero tiles and a highest level of
\* 2000 x 1000; TileGrid.create builds that tile grid for the demo dataset.
C10_DemoCube ==
    /\ (/\ tg_call.op = "pow2_2d_subdivision"
        /\ <<tg_call.w, tg_call.h, tg_call.w_mode, tg_call.h_mode,
             tg_call.tw_opt, tg_call.th_opt>> = DemoArgs)
         => /\ tg_result = [error |-> "", w_act |-> 2000, h_act |-> 1000,
                            tw |-> 250, th |-> 250,
                            nt0_x |-> 2, nt0_y |-> 1, nl |-> 3]
            /\ tg_result.nt0_x * 2 ^ (tg_result.nl - 1) * tg_result.tw = 2000
            /\ tg_result.nt0_y * 2 ^ (tg_result.nl - 1) * tg_result.th = 1000
    /\ (/\ tg_call.op = "create"
        /\ <<tg_call.w, tg_call.h, tg_call.tile_width, tg_call.tile_height>>
             = <<DemoArgs[1], DemoArgs[2], DemoArgs[5], DemoArgs[6]>>
        /\ tg_call.geo_extent = DemoExtent)
         => /\ tg_result.error = ""
            /\ tg_result.tile_grid = TileGrid(3, 2, 1, 250, 250, DemoExtent)
            /\ max_width(tg_result.tile_grid) = 2000
            /\ max_height(tg_result.tile_grid) = 1000

\* TileGrid.create was called for the demo dataset and returned a tile grid
C10_Witness ==
    /\ tg_call.op = "create"
    /\ tg_call.w = DemoArgs[1]
    /\ tg_call.h = DemoArgs[2]
    /\ tg_call.tile_width = DemoArgs[5]
    /\ tg_call.geo_extent = DemoExtent
    /\ tg_result.error = ""
    /\ tg_result.tile_grid.num_levels = 3

\* C11 as stated (TgSpec): TileGrid.create for the global raster of
\* 1024 x 512 pixels with the default tile size yields 2 x 1 level-zero
\* tiles and 3 levels, the levels being 512, 1024 and 2048 pixels wide over
\* the 360 degrees of the extent.
C11_WorldRasterAsStated ==
    (/\ tg_call.op = "create"
     /\ <<tg_call.w, tg_call.h>> = <<1024, 512>>
     /\ tg_call.tile_width = None /\ tg_call.tile_height = None
     /\ tg_call.geo_extent = GlobalExtent)
      => /\ tg_result.error = ""
         /\ tg_result.tile_grid.num_level_zero_tiles_x = 2
         /\ tg_result.tile_grid.num_level_zero_tiles_y = 1
         /\ tg_result.tile_grid.num_levels = 3
         /\ tg_result.tile_grid.geo_extent = GlobalExtent
         /\ \A z \in 0..2 : width(tg_result.tile_grid, z) = 512 * 2 ^ z

\* C11 (TgSpec): TileGrid.create with the default tile size of 256 x 256
\* and the global extent yields 2 x 1 level-zero tiles for both global
\* rasters; the raster of 2048 x 1024 pixels gets 3 levels, 512, 1024 and
\* 2048 pixels wide over the 360 degrees of the unchanged extent, the raster
\* of 1024 x 512 pixels gets 2 levels, 512 and 1024 pixels wide.
C11_WorldRaster ==
    (/\ tg_call.op = "create"
     /\ tg_call.tile_width = None /\ tg_call.tile_height = None
     /\ tg_call.geo_extent = GlobalExtent
     /\ <<tg_call.w, tg_call.h>> \in {<<1024, 512>>, <<2048, 1024>>})
      => /\ tg_result.error = ""
         /\ tg_result.tile_grid.num_level_zero_tiles_x = 2
         /\ tg_result.tile_grid.num_level_zero_tiles_y = 1
         /\ tg_result.tile_grid.tile_width = DefaultTileSize
         /\ tg_result.tile_grid.tile_height = DefaultTileSize
         /\ tg_result.tile_grid.num_levels = IF tg_call.w = 2048 THEN 3 ELSE 2
         /\ tg_result.tile_grid.geo_extent = GlobalExtent
         /\ \A z \in 0..(tg_result.tile_grid.num_levels - 1) :
               /\ width(tg_result.tile_grid, z) = 512 * 2 ^ z
               /\ height(tg_result.tile_grid, z) = 256 * 2 ^ z
         /\ max_width(tg_result.tile_grid) = tg_call.w

\* TileGrid.create was called for the global raster of 1024 x 512 pixels
\* and returned a tile grid of 2 levels
C11_Witness ==
    /\ tg_call.op = "create"
    /\ <<tg_call.w, tg_call.h>> = <<1024, 512>>
    /\ tg_call.tile_width = None
    /\ tg_call.geo_extent = GlobalExtent
    /\ tg_result.error = ""
    /\ tg_result.tile_grid.num_levels = 2


\* the slots of the dataset, and the handles that were retrieved for a slot
Slots == 1..Len(mld.level_datasets)

HandlesOfSlot(k) ==
    {h \in 1..Len(level_handles) :
        Slot(level_handles[h], mld.num_levels) = k}

\* C12 as stated: with one caller at a time, get_dataset_lazily is invoked
\* at most once per level index.
C12_LazilyOncePerIndex ==
    \A i \in DOMAIN lazily_calls : lazily_calls[i] <= 1

\* C12: with one caller at a time, get_dataset_lazily is invoked for an
\* index only while the slot of the index is empty, so that at most one
\* invocation per slot returns a handle; a filled slot keeps its handle,
\* every get_dataset(i) returns the handle in the slot of i, and a
\* get_dataset(i) changes no slot but that of i.
C12_MemoizedPerSlot ==
    /\ [](\A k \in Slots : Cardinality(HandlesOfSlot(k)) <= 1)
    /\ [][/\ \A i \in DOMAIN lazily_calls :
               lazily_calls'[i] > lazily_calls[i] =>
                  /\ InRange(i, mld.num_levels)
                  /\ mld.level_datasets[Slot(i, mld.num_levels)] = None
          /\ \A k \in Slots :
               mld.level_datasets[k] # None =>
                  mld'.level_datasets[k] = mld.level_datasets[k]
          /\ Len(rd'[Caller].out) > Len(rd[Caller].out) =>
               /\ HandlesOfSlot(Slot(rd[Caller].index, mld.num_levels))
                    = {rd'[Caller].out[Len(rd'[Caller].out)]}
          /\ (mld.status = "ok" /\ mld' # mld) =>
               \A k \in Slots \ {Slot(rd[Caller].index, mld.num_levels)} :
                  mld'.level_datasets[k] = mld.level_datasets[k]]_vars

\* a get_dataset(i) has returned the memoized handle without a retrieval,
\* after a retrieval for i that failed and one that returned the handle
C12_Witness ==
    /\ rd[Caller].pc = "idle"
    /\ rd[Caller].op = "get_dataset"
    /\ rd[Caller].error = ""
    /\ rd[Caller].value = 0
    /\ rd[Caller].out = <<1>>
    /\ lazily_calls[rd[Caller].index] = 2

\* the level entries of the directory: the directories <index>.zarr and the
\* files <index>.link
LevelEntries == {e \in dir_listing : e[2] \in {"zarr", "link"}}

\* C13: the construction of a StoredMultiLevelDataset fails for every
\* directory whose level entries have a gap in their indices or contain an
\* index twice; when it succeeds, num_levels >= 1 and there is exactly one
\* level entry for each index 0 .. num_levels-1.
C13_GapsAndDuplicatesFail ==
    LET gap == \E e \in LevelEntries : \E j \in 0..(e[1] - 1) :
                  \A d \in LevelEntries : d[1] # j
        twice == \E e, d \in LevelEntries : e[1] = d[1] /\ e # d
    IN  /\ (mld.status # "none" /\ (gap \/ twice)) =>
             mld.status = "ValueError"
        /\ mld.status = "ok" =>
             /\ mld.num_levels >= 1
             /\ \A i \in 0..(mld.num_levels - 1) :
                  Cardinality({e \in LevelEntries : e[1] = i}) = 1

\* C14 as stated: the equality of two tile grids is decided by the five
\* fields num_levels, num_level_zero_tiles_x, num_level_zero_tiles_y,
\* tile_width and tile_height alone.
C14_EqualityOfFiveFields ==
    (tg_call.op = "__eq__" /\ tg_call.o \in EqGrids) =>
        (tg_result.value <=>
            \A k \in 1..5 : tg_call.self[EqAttributes[k]]
                              = tg_call.o[EqAttributes[k]])

\* C14: the equality of tile grids is reflexive and symmetric and is decided
\* by the five structural fields together with geo_extent: two grids are
\* equal exactly if they agree on all six, and a grid is unequal to an
\* object that lacks one of these attributes.
C14_EqualityOfSixFields ==
    tg_call.op = "__eq__" =>
        /\ tg_call.o \in EqGrids =>
             /\ tg_result.value <=>
                  \A k \in 1..6 : tg_call.self[EqAttributes[k]]
                                    = tg_call.o[EqAttributes[k]]
             /\ tg_result.value <=> tile_grid_eq(tg_call.o, tg_call.self)
        /\ tg_call.o = tg_call.self => tg_result.value
        /\ tg_call.o \in OtherObjects => ~tg_result.value

\* two grids that agree on the five fields and differ in geo_extent were
\* compared, and are unequal
C14_Witness ==
    /\ tg_call.op = "__eq__"
    /\ tg_call.o \in EqGrids
    /\ \A k \in 1..5 : tg_call.self[EqAttributes[k]]
                         = tg_call.o[EqAttributes[k]]
    /\ tg_call.self.geo_extent # tg_call.o.geo_extent
    /\ ~tg_result.value

\* C15: pow2_1d_subdivisions raises an invalid-parameter error and returns
\* no subdivision whenever s < 1 or a supplied ts_min, ts_max, ts_opt,
\* nt0_max or nl_max is < 1, whatever the other arguments are.
C15_InvalidParametersRaise ==
    LET invalid(x) == x # None /\ x[1] < 1
    IN  (/\ tg_call.op = "pow2_1d_subdivisions"
         /\ \/ tg_call.s < 1
            \/ invalid(tg_call.ts_min) \/ invalid(tg_call.ts_max)
            \/ invalid(tg_call.ts_opt)
            \/ invalid(tg_call.nt0_max) \/ invalid(tg_call.nl_max))
        => (tg_result.error # "" /\ tg_result.subdivisions = << >>)

\* C16: adjust_geo_extent, given an extent with west and east in
\* [-180, 180] and w_new > w_old, keeps west and returns an east that is
\* west plus the scaled span, wrapped by whole turns into [-180, 180].
C16_EastWrappedIntoRange ==
    (/\ tg_call.op = "adjust_geo_extent"
     /\ tg_result.error = ""
     /\ tg_call.w_new > tg_call.w_old)
    => LET old == tg_call.geo_extent
           new == tg_result.geo_extent
           d == new.east[2]
           span == IF old.west[1] < old.east[1]
                   THEN old.east[1] - old.west[1]
                   ELSE Deg360 + old.east[1] - old.west[1]
       IN  /\ new.west = old.west
           /\ d = tg_call.w_old
           /\ (new.east[1] - (old.west[1] * d + tg_call.w_new * span))
                 % (Deg360 * d) = 0
           /\ -Deg180 * d <= new.east[1]
           /\ new.east[1] <= Deg180 * d

\* C17: the open of a dataset is not performed while the registry lock is
\* held: while one thread is about to open identifier A, a get of another
\* thread for a different, uncached identifier B is not kept waiting at
\* "with self._lock".
C17_OpenOutsideLock ==
    \A t \in Threads, u \in Threads :
        (/\ t # u
         /\ stack[t] # << >> /\ stack[u] # << >>
         /\ Top(u).pc = "create"
         /\ Top(t).pc = "lock"
         /\ Top(t).ds_id # Top(u).ds_id
         /\ get_dataset_descriptor(config, Top(u).ds_id).error = ""
         /\ get_dataset_descriptor(config, Top(t).ds_id).error = "")
        => lock.owner \in {NoThread, t}

\* C18: under any interleaving of concurrent get_dataset(i) calls on one
\* dataset, at most one invocation of get_dataset_lazily retrieves a handle
\* for index i, and all callers of get_dataset(i) receive the same handle.
C18_OneHandlePerIndexConcurrently ==
    /\ \A i \in 0..(mld.num_levels - 1) :
         Cardinality({h \in DOMAIN level_handles : level_handles[h] = i}) <= 1
    /\ \A t \in Threads, u \in Threads :
         (/\ rd[t].op = "get_dataset" /\ rd[u].op = "get_dataset"
          /\ rd[t].index = rd[u].index
          /\ rd[t].out # << >> /\ rd[u].out # << >>)
         => rd[t].out = rd[u].out

\* C19: a handle that get_ml_dataset or get_dataset returned to a reader is
\* not closed by a configuration assignment while the reader, which has not
\* made its next call, still has it.
C19_ReaderHandleStaysOpen ==
    \A t \in Threads :
        (stack[t] = << >> /\ result[t].kind = "ok") =>
            handles[result[t].value].closes = 0

\* the order (a1, a2, a3, a4) < (b1, b2, b3, b4) of tuples of four integers
LexLess(a, b) ==
    \E k \in 1..4 : a[k] < b[k] /\ \A j \in 1..(k - 1) : a[j] = b[j]

\* C20: the candidate that pow2_1d_subdivision returns is, among all
\* accepted candidates, minimal in the lexicographic order of
\* (|s_max - s|, nt0, |ts - ts_opt| when ts_opt is given, -num_levels).
C20_ClosestFitFirst ==
    (tg_call.op = "pow2_1d_subdivision" /\ tg_result.error = "") =>
        LET s == tg_call.s_act
            ts_opt == tg_call.ts_opt
            key(r) == <<Abs(r[1] - s), r[3],
                        IF ts_opt # None THEN Abs(r[2] - ts_opt[1]) ELSE 0,
                        -r[4]>>
            accepted == pow2_1d_subdivisions(s, tg_call.s_mode, ts_opt,
                            None, None, None, None).subdivisions
        IN  \A i \in 1..Len(accepted) :
               ~LexLess(key(accepted[i]), key(tg_result.rec))

\* C21: when ts_opt >= 1 is given and ts_min and ts_max are not, the tile
\* sizes pow2_1d_subdivisions enumerates for an extent s are the integers in
\* [max(1, ts_opt div 2), min(s, 2 * ts_opt)], and the call is not rejected.
C21_TileSizesFromOne ==
    LET valid(x) == x = None \/ x[1] >= 1
    IN  (/\ tg_call.op = "pow2_1d_subdivisions"
         /\ tg_call.s >= 1
         /\ tg_call.ts_opt # None /\ tg_call.ts_opt[1] >= 1
         /\ tg_call.s # tg_call.ts_opt[1]
         /\ tg_call.ts_min = None /\ tg_call.ts_max = None
         /\ valid(tg_call.nt0_max) /\ valid(tg_call.nl_max))
        => LET lo == IF tg_call.ts_opt[1] \div 2 < 1 THEN 1
                     ELSE tg_call.ts_opt[1] \div 2
           IN  /\ tg_result.error = ""
               /\ ts_values(tg_call.s, tg_call.ts_opt, None, None)
                    = lo .. Min(tg_call.s, 2 * tg_call.ts_opt[1])

\* the results of the two calls of pow2_1d_subdivision that the recorded
\* call of pow2_2d_subdivision made
AxisX == pow2_1d_subdivision(tg_call.w, tg_call.w_mode, tg_call.tw_opt,
                             None, None, None, None)

AxisY == pow2_1d_subdivision(tg_call.h, tg_call.h_mode, tg_call.th_opt,
                             None, None, None, None)

\* what C22 says of one axis: a is the 1D result of the axis and b that of
\* the other axis, nt0 the returned level-zero tile count of the axis
ReconciledAxis(a, b, nt0, nl) ==
    IF a[4] > b[4]
    THEN /\ nt0 = CeilDiv(CeilDiv(a[1], 2 ^ (nl - 1)), a[2])
         /\ nt0 * a[2] * (2 ^ (nl - 1)) >= a[1]
    ELSE nt0 = a[3]

\* C22: pow2_2d_subdivision returns num_levels = min(nl_x, nl_y) and the
\* sizes and tile sizes of the two 1D results; the axis with more levels
\* gets the level-zero tile count ceil(ceil(s_act / 2^(nl-1)) / ts), which
\* covers s_act at the reduced level count, and the level-zero tile count
\* of an axis that does not have more levels is unchanged.
C22_LevelsReconciled ==
    (tg_call.op = "pow2_2d_subdivision" /\ tg_result.error = "") =>
        /\ tg_result.nl = Min(AxisX.rec[4], AxisY.rec[4])
        /\ tg_result.w_act = AxisX.rec[1] /\ tg_result.tw = AxisX.rec[2]
        /\ tg_result.h_act = AxisY.rec[1] /\ tg_result.th = AxisY.rec[2]
        /\ ReconciledAxis(AxisX.rec, AxisY.rec, tg_result.nt0_x, tg_result.nl)
        /\ ReconciledAxis(AxisY.rec, AxisX.rec, tg_result.nt0_y, tg_result.nl)

\* a call returned whose X axis had more levels than its Y axis, and whose
\* level-zero tile count in X was changed by the reconciliation
C22_Witness ==
    /\ tg_call.op = "pow2_2d_subdivision"
    /\ tg_result.error = ""
    /\ AxisX.rec[4] > AxisY.rec[4]
    /\ tg_result.nt0_x # AxisX.rec[3]

\* C23: get_variable_for_z reads the variable from level index
\* num_levels-1-z exactly when 0 <= z < num_levels, and returns data of no
\* level for a z outside that range.
C23_LevelForZ ==
    \A t \in Threads :
        (/\ rd[t].op = "get_variable_for_z"
         /\ rd[t].pc = "idle"
         /\ rd[t].out # << >>)
        => LET z == mld.num_levels - 1 - rd[t].index
           IN  /\ 0 <= z /\ z < mld.num_levels
               /\ level_handles[rd[t].out[1]] = mld.num_levels - 1 - z

\* C24: under any interleaving of get(id) threads with a configuration
\* assignment, once they have finished every identifier in dataset_cache
\* is listed in the Datasets of the current configuration.
C24_CacheListedAfterRace ==
    (assigns > 0 /\ \A t \in Threads : stack[t] = << >>) =>
        \A ds_id \in DOMAIN dataset_cache :
            find_dataset_descriptor(config.Datasets, ds_id) # None

\* C25: after any sequence of get(id) and configuration assignments, the
\* descriptor stored with each cached entry is the descriptor the current
\* configuration lists for the identifier.
C25_CachedDescriptorIsCurrent ==
    \A ds_id \in DOMAIN dataset_cache :
        find_dataset_descriptor(config.Datasets, ds_id)
            = Some(dataset_cache[ds_id].descriptor)

\* C26: for all w, h >= 1 and all modes, both level-zero tile counts that
\* pow2_2d_subdivision returns lie in [1, nt0_max), below the default cap of
\* 8, also on the axis whose tile count was recomputed.
C26_TileCountsBelowCap ==
    (tg_call.op = "pow2_2d_subdivision" /\ tg_result.error = "") =>
        /\ 1 <= tg_result.nt0_x /\ tg_result.nt0_x < DefaultNt0Max
        /\ 1 <= tg_result.nt0_y /\ tg_result.nt0_y < DefaultNt0Max

\* C27: the sizes pow2_2d_subdivision reports are the pixel extents of the
\* highest level of the returned pyramid: w_act = nt0_x * 2^(nl-1) * tw and
\* h_act = nt0_y * 2^(nl-1) * th, also for the single-tile fallback and
\* when the level count was reduced.
C27_ReportedSizeIsTopLevel ==
    (tg_call.op = "pow2_2d_subdivision" /\ tg_result.error = "") =>
        /\ tg_result.w_act
             = tg_result.nt0_x * (2 ^ (tg_result.nl - 1)) * tg_result.tw
        /\ tg_result.h_act
             = tg_result.nt0_y * (2 ^ (tg_result.nl - 1)) * tg_result.th

\* a call returned whose X axis is the single-tile fallback of more than one
\* pixel and whose Y axis had its level count reduced
C27_Witness ==
    /\ tg_call.op = "pow2_2d_subdivision"
    /\ tg_result.error = ""
    /\ tg_call.w > 1
    /\ AxisX.rec = Trivial(tg_call.w)
    /\ AxisY.rec[4] > tg_result.nl
    /\ tg_result.h_act = tg_result.nt0_y * tg_result.th

\* C28: TileGrid.create selects mode EQ for an axis whose extent spans the
\* full range, west = -180 and east = 180, or the latitudes -90 and 90 in
\* either order, and mode GE otherwise; the highest level then has exactly
\* the size of the raster on a full-range axis and is never smaller than
\* the raster.
C28_FullRangeIsExact ==
    tg_call.op = "create" =>
        LET e == tg_call.geo_extent
            full_x == e.west[1] = -Deg180 /\ e.east[1] = Deg180
            full_y == {e.south[1], e.north[1]} = {-Deg90, Deg90}
        IN  /\ create_w_mode(e) = IF full_x THEN MODE_EQ ELSE MODE_GE
            /\ create_h_mode(e) = IF full_y THEN MODE_EQ ELSE MODE_GE
            /\ tg_result.error = "" =>
                 /\ max_width(tg_result.tile_grid) >= tg_call.w
                 /\ max_height(tg_result.tile_grid) >= tg_call.h
                 /\ full_x => max_width(tg_result.tile_grid) = tg_call.w
                 /\ full_y => max_height(tg_result.tile_grid) = tg_call.h

C30_EveryCallReturns ==
    \A t \in Threads :
        (stack[t] # << >>)
            ~> (stack[t] = << >> /\ result[t].kind \in {"ok", "error"})

\* a thread waits for the lock while another thread, which holds it twice,
\* opens the dataset a computed dataset references
C30_Witness ==
    \E t \in Threads, u \in Threads :
        /\ t # u
        /\ stack[t] # << >> /\ Top(t).pc = "lock"
        /\ Len(stack[u]) = 2
        /\ lock = [owner |-> u, count |-> 2]

====
